---- MODULE Spec2Model ----
(***************************************************************************)
(* State-machine model of the payroll scenario of agentic-hr:              *)
(*   src/scenario_payroll.py  (ScenarioMemoryManager, ScenarioContext,     *)
(*   the slot extractor, PayrollScenario).                                 *)
(*                                                                         *)
(* A user message is a sequence of tokens (whitespace separated words).    *)
(* Tokens are written in ASCII; the Korean words of the source are         *)
(* romanised:                                                              *)
(*   geubyeo = U+AE09 U+C5EC (payroll)   gongje  = U+ACF5 U+C81C (deduct.) *)
(*   jigeup  = U+C9C0 U+AE09 (payment)   jeonpyo = U+C804 U+D45C (journal) *)
(*   chwiso  = U+CDE8 U+C18C (cancel)    jungdan = U+C911 U+B2E8 (abort)   *)
(*   jongnyo = U+C885 U+B8CC (quit)      ye      = U+C608 (yes)            *)
(*   ne      = U+B124 (yes)              jinhaeng= U+C9C4 U+D589 (proceed) *)
(*   anio    = U+C544 U+B2C8 U+C624 (no) ani     = U+C544 U+B2C8 (no)      *)
(*   nn      = U+3134 U+3134 (no)        jeonjigwon = "all employees"      *)
(*   cheori  = U+CC98 U+B9AC (process)   geomjeung = U+AC80 U+C99D (verify)*)
(*   2026y1m = "2026<nyeon> 1<wol>"      25il    = "25<il>" (25th day)     *)
(*   jinandal = U+C9C0 U+B09C U+B2EC (last month)                          *)
(***************************************************************************)
EXTENDS Naturals, Sequences, FiniteSets, TLC

VARIABLES mem, exited, last, pc, loc, walk

vars == <<mem, exited, last, pc, loc, walk>>

(***************************************************************************)
(* Bounds of the model.                                                    *)
(***************************************************************************)
\* a stored history holds at most MaxHistory entries
MaxHistory == 4

(***************************************************************************)
(* Python values.                                                          *)
(***************************************************************************)
None == "<None>"

EmptyDict == <<>>

Has(d, k) == k \in DOMAIN d

DictGet(d, k, default) == IF k \in DOMAIN d THEN d[k] ELSE default

DictPut(d, k, v) == [x \in (DOMAIN d) \cup {k} |-> IF x = k THEN v ELSE d[x]]

DictUpdate(d, e) == [x \in (DOMAIN d) \cup (DOMAIN e) |-> IF x \in DOMAIN e THEN e[x] ELSE d[x]]

DictDel(d, k) == [x \in (DOMAIN d) \ {k} |-> d[x]]

DictOmit(d, ks) == [x \in (DOMAIN d) \ ks |-> d[x]]

(***************************************************************************)
(* Constants of scenario_payroll.py.                                       *)
(***************************************************************************)
STATE_PAYROLL_CALC == "PAYROLL_CALC"

STATE_TAX_CALC == "TAX_CALC"

STATE_PAYMENT_RUN == "PAYMENT_RUN"

STATE_JOURNAL_POST == "JOURNAL_POST"

STATE_DONE == "DONE"

ACTIVE_SCENARIO == "PAYROLL_E2E"

TODAY_PERIOD == "2026-01"

LAST_MONTH_PERIOD == "2025-12"

(***************************************************************************)
(* Slot extractor.  Each regular expression of the source is modelled by   *)
(* the set of tokens it matches; re.search takes the leftmost match.       *)
(***************************************************************************)
HasToken(text, S) == \E i \in 1..Len(text) : text[i] \in S

FirstToken(text, S) == text[CHOOSE i \in 1..Len(text) : text[i] \in S /\ \A j \in 1..(i - 1) : text[j] \notin S]

\* (20\d{2})[-./](0?[1-9]|1[0-2]) : also matches the head of a full date
YearMonthOf == [t \in {"2026-01", "2026-01-25", "2026-01-31"} |-> "2026-01"]

\* (20\d{2})\s*<nyeon>\s*(0?[1-9]|1[0-2])\s*<wol>
YearWolOf == [t \in {"2026y1m"} |-> "2026-01"]

\* (0?[1-9]|1[0-2])\s*<wol>, month digits of the match
MonthWolOf == [t \in {"1wol"} |-> "01"]

ThisMonthTokens == {"ibeondal", "dangwol"}

LastMonthTokens == {"jinandal", "jeonwol"}

_extract_period(text) ==
    IF HasToken(text, DOMAIN YearMonthOf) THEN YearMonthOf[FirstToken(text, DOMAIN YearMonthOf)]
    ELSE IF HasToken(text, DOMAIN YearWolOf) THEN YearWolOf[FirstToken(text, DOMAIN YearWolOf)]
    ELSE IF HasToken(text, DOMAIN MonthWolOf) THEN "2026-" \o MonthWolOf[FirstToken(text, DOMAIN MonthWolOf)]
    ELSE IF HasToken(text, ThisMonthTokens) THEN TODAY_PERIOD
    ELSE IF HasToken(text, LastMonthTokens) THEN LAST_MONTH_PERIOD
    ELSE None

AllScopeTokens == {"jeonjigwon", "jeonche", "jeonsa", "modu"}

\* ([hangul A-Za-z0-9_]+)\s*(bu|tim)\b : a word ending in the department suffix
DeptOf == [t \in {"yeongeopbu"} |-> "dept:yeongeopbu"]

\* \b([hangul]{2,4})\b : stand-alone words of two to four hangul syllables
HangulWords == {"geubyeo", "gongje", "jigeup", "jeonpyo", "chwiso", "jungdan", "jongnyo",
                "jinhaeng", "silhaeng", "hwakjeong", "anio", "ani", "cheori", "geomjeung",
                "jinandal", "ibeondal", "jeonwol", "dangwol", "jeonjigwon", "jeonche",
                "jeonsa", "modu", "yeongeopbu", "annyeong", "geuman", "cheoeumbuteo",
                "riset", "chogihwa", "iche", "songgeum", "segeum", "woncheonse",
                "boheomnyo", "bungae", "jeongi", "hoegye"}

\* words containing one of the deny-listed substrings of line 189
DeniedWords == {"geubyeo", "gongje", "jigeup", "jeonpyo", "jinandal", "ibeondal", "jeonwol",
                "dangwol", "segeum"}

_extract_employee_scope(text) ==
    IF HasToken(text, AllScopeTokens) THEN "ALL"
    ELSE IF HasToken(text, DOMAIN DeptOf) THEN DeptOf[FirstToken(text, DOMAIN DeptOf)]
    ELSE IF HasToken(text, HangulWords) /\ FirstToken(text, HangulWords) \notin DeniedWords
         THEN "emp:" \o FirstToken(text, HangulWords)
    ELSE None

\* (20\d{2})[-./](0?[1-9]|1[0-2])[-./](0?[1-9]|[12]\d|3[01])
FullDateOf == [t \in {"2026-01-25", "2026-01-31"} |-> t]

\* (0?[1-9]|[12]\d|3[01])\s*<il>
DayOf == [t \in {"25il"} |-> "25"]

PaymentWords == {"jigeup", "iche", "songgeum"}

_extract_pay_date(text) ==
    IF HasToken(text, DOMAIN FullDateOf) THEN FullDateOf[FirstToken(text, DOMAIN FullDateOf)]
    ELSE IF HasToken(text, DOMAIN DayOf) /\ HasToken(text, PaymentWords)
         THEN "__DAY__:" \o DayOf[FirstToken(text, DOMAIN DayOf)]
    ELSE None

AffirmativeTokens == {"ye", "ne", "eung", "jinhaeng", "silhaeng", "hwakjeong", "ok", "ok_jamo"}

NegativeTokens == {"anio", "ani", "chwiso", "jungdan", "no", "nn"}

\* re.fullmatch: the whole (stripped) text is one of the tokens
_extract_confirm(text) ==
    IF Len(text) = 1 /\ text[1] \in AffirmativeTokens THEN "True"
    ELSE IF Len(text) = 1 /\ text[1] \in NegativeTokens THEN "False"
    ELSE None

PayrollWords == {"geubyeo"}

TaxWords == {"segeum", "woncheonse", "4daeboheom", "boheomnyo", "gongje"}

JournalWords == {"jeonpyo", "bungae", "jeongi", "hoegye"}

ExitWords == {"chwiso", "jongnyo", "geuman", "jungdan", "cheoeumbuteo", "riset", "chogihwa"}

\* variant: an "elif" chain, the first match wins
ExtractIntentFirstWins(text) ==
    IF HasToken(text, PayrollWords) THEN "PAYROLL"
    ELSE IF HasToken(text, TaxWords) THEN "TAX"
    ELSE IF HasToken(text, PaymentWords) THEN "PAYMENT"
    ELSE IF HasToken(text, JournalWords) THEN "JOURNAL"
    ELSE IF HasToken(text, ExitWords) THEN "EXIT"
    ELSE None

\* the five consecutive "if" statements: a later match overwrites an earlier one
ExtractIntent(text) ==
    IF HasToken(text, ExitWords) THEN "EXIT"
    ELSE IF HasToken(text, JournalWords) THEN "JOURNAL"
    ELSE IF HasToken(text, PaymentWords) THEN "PAYMENT"
    ELSE IF HasToken(text, TaxWords) THEN "TAX"
    ELSE IF HasToken(text, PayrollWords) THEN "PAYROLL"
    ELSE None

Optional(k, v) == IF v = None THEN EmptyDict ELSE DictPut(EmptyDict, k, v)

extract_slots(text) ==
    DictUpdate(DictUpdate(DictUpdate(DictUpdate(
        Optional("period", _extract_period(text)),
        Optional("employee_scope", _extract_employee_scope(text))),
        Optional("pay_date", _extract_pay_date(text))),
        Optional("confirm", _extract_confirm(text))),
        Optional("intent", ExtractIntent(text)))

(***************************************************************************)
(* Result parsing helpers.  A value returned in "result" is a record       *)
(*   form  : "none" (None), "list" (a list or tuple), "text" (a string)    *)
(*   parses: for a string, whether ast.literal_eval accepts it             *)
(*   items : the elements of the list (or of the evaluated string); an     *)
(*           element is [tuple |-> is it a list/tuple, vals |-> its values]*)
(*   nums  : for a string, the numeric tokens found in it                  *)
(* and a value of a row is the tag of its Python type.                     *)
(***************************************************************************)
NumericTags == {"int", "dec", "float"}

_to_rows(result) ==
    IF result.form = "none" THEN <<>>
    ELSE IF result.form = "list" THEN result.items
    ELSE IF result.form = "text"
         THEN IF result.parses THEN result.items
              ELSE IF result.nums # <<>> THEN <<[tuple |-> TRUE, vals |-> result.nums]>>
              ELSE <<>>
    ELSE <<>>

\* float(rate) succeeds
FloatOk(v) == v \in NumericTags

(***************************************************************************)
(* HRTextToSQLEngine.run as seen by the scenario: it raises, or returns a  *)
(* dict with "error", or a dict with "result".                             *)
(***************************************************************************)
NoneResult == [form |-> "none", parses |-> FALSE, items |-> <<>>, nums |-> <<>>]

EngineRun(sql) ==
    IF sql.kind = "error" THEN [fixed_sql |-> "SQL", error |-> "ERR"]
    ELSE [fixed_sql |-> "SQL", result |-> sql.result]

(***************************************************************************)
(* Scenario context and memory manager.                                    *)
(***************************************************************************)
ScenarioContext(a, st, sl, rf, h) ==
    [active_scenario |-> a, state |-> st, slots |-> sl, refs |-> rf, history |-> h]

\* variant: to_dict stores an empty history
ToDictDropsHistory(ctx) ==
    [active_scenario |-> ctx.active_scenario, state |-> ctx.state, slots |-> ctx.slots,
     refs |-> ctx.refs, history |-> <<>>]

to_dict(ctx) ==
    [active_scenario |-> ctx.active_scenario, state |-> ctx.state, slots |-> ctx.slots,
     refs |-> ctx.refs, history |-> ctx.history]

\* variant: from_dict does not take the stored history over
FromDictNoHistory(d) ==
    ScenarioContext(DictGet(d, "active_scenario", ""), DictGet(d, "state", ""),
                    DictGet(d, "slots", EmptyDict), DictGet(d, "refs", EmptyDict), <<>>)

from_dict(d) ==
    ScenarioContext(DictGet(d, "active_scenario", ""), DictGet(d, "state", ""),
                    DictGet(d, "slots", EmptyDict), DictGet(d, "refs", EmptyDict),
                    DictGet(d, "history", <<>>))

MemGet(m, session_id) == DictGet(m, session_id, EmptyDict)

MemSet(m, session_id, data) == DictPut(m, session_id, data)

\* variant: clear forgets to delete
MemClearKeeps(m, session_id) == m

\* variant: clear empties the whole store
MemClearAll(m, session_id) == EmptyDict

MemClear(m, session_id) == IF session_id \in DOMAIN m THEN DictDel(m, session_id) ELSE m

(***************************************************************************)
(* PayrollScenario helpers.                                                *)
(***************************************************************************)
TriggerWords == {"geubyeo", "woncheonse", "4daeboheom", "jigeup", "jeonpyo", "gongje"}

_is_payroll_trigger(text, ctx) ==
    IF ctx.active_scenario = ACTIVE_SCENARIO THEN TRUE
    ELSE HasToken(text, TriggerWords)

\* variant: the PAYMENT intent jumps one stage too far
MaybeJumpStateSkips(ctx, intent) ==
    IF intent = "PAYROLL" THEN [ctx EXCEPT !.state = STATE_PAYROLL_CALC]
    ELSE IF intent = "TAX" THEN [ctx EXCEPT !.state = STATE_TAX_CALC]
    ELSE IF intent = "PAYMENT" THEN [ctx EXCEPT !.state = STATE_JOURNAL_POST]
    ELSE IF intent = "JOURNAL" THEN [ctx EXCEPT !.state = STATE_JOURNAL_POST]
    ELSE ctx

_maybe_jump_state(ctx, intent) ==
    IF intent = "PAYROLL" THEN [ctx EXCEPT !.state = STATE_PAYROLL_CALC]
    ELSE IF intent = "TAX" THEN [ctx EXCEPT !.state = STATE_TAX_CALC]
    ELSE IF intent = "PAYMENT" THEN [ctx EXCEPT !.state = STATE_PAYMENT_RUN]
    ELSE IF intent = "JOURNAL" THEN [ctx EXCEPT !.state = STATE_JOURNAL_POST]
    ELSE ctx

IsDayMarker(v) == v \in {"__DAY__:" \o DayOf[t] : t \in DOMAIN DayOf}

\* int(pay_date.split(":")[1]) formatted as two digits
DayDigits(v) == CHOOSE d \in {DayOf[t] : t \in DOMAIN DayOf} : v = "__DAY__:" \o d

\* variant: a day-only pay date is left as it was extracted
NormalizeSlotsKeepsDay(ctx) == ctx

_normalize_slots(ctx) ==
    IF Has(ctx.slots, "pay_date") /\ IsDayMarker(ctx.slots["pay_date"]) /\ Has(ctx.slots, "period")
    THEN [ctx EXCEPT !.slots = DictPut(@, "pay_date", ctx.slots["period"] \o "-" \o DayDigits(ctx.slots["pay_date"]))]
    ELSE ctx

\* the list of missing keys (every stored slot value is a non-empty string)
_require(ctx, keys) == SelectSeq(keys, LAMBDA k : ~Has(ctx.slots, k))

\* uid stands for uuid.uuid4().hex[:6]
_make_run_id(prefix, period, uid) == <<prefix, period, uid>>

\* a value uuid4 did not return before in the context the handlers work on,
\* for the thread that calls: the context is the stored one when the scenario
\* is active and a new one, with an empty history, when it is not
FreshUid(d, thread) ==
    <<thread, IF DictGet(d, "active_scenario", "") = ACTIVE_SCENARIO THEN Len(DictGet(d, "history", <<>>)) + 1 ELSE 1>>

NoQuestion == [stage |-> "none"]

\* variant: the "confirm is None" test is missing
ConfirmGateNoPrompt(confirm) == IF confirm = "False" THEN "cancel" ELSE "run"

\* variant: the "confirm is False" test is missing
ConfirmGateNoCancel(confirm) == IF confirm = None THEN "prompt" ELSE "run"

\* the two confirmation tests of a gated stage: "confirm is None", "confirm is False"
ConfirmGate(confirm) ==
    IF confirm = None THEN "prompt"
    ELSE IF confirm = "False" THEN "cancel"
    ELSE "run"

\* what a stage handler hands back to route_and_handle
Returned(ctx, out, question) ==
    [ctx |-> ctx, out |-> out, calls |-> IF question = NoQuestion THEN 0 ELSE 1,
     raised |-> FALSE, question |-> question]

\* an exception leaves the handler after sql_engine.run was called
Raised(ctx, question) ==
    [ctx |-> ctx, out |-> [raised |-> TRUE], calls |-> 1, raised |-> TRUE, question |-> question]

(***************************************************************************)
(* STATE 1) PAYROLL_CALC                                                   *)
(***************************************************************************)
_state_payroll_calc(ctx, sql, uid) ==
    LET missing == _require(ctx, <<"period", "employee_scope">>) IN
    IF missing # <<>>
    THEN Returned(ctx, [handled |-> TRUE,
                        reply |-> [kind |-> "payroll_missing_slots", missing |-> missing],
                        state |-> ctx.state,
                        suggestions |-> <<"2026-01 jeonjigwon geubyeo", "ibeondal jeonjigwon geubyeo">>],
                  NoQuestion)
    ELSE
    LET period == ctx.slots["period"]
        scope == ctx.slots["employee_scope"]
        calc_mode == DictGet(ctx.slots, "calc_mode", "preview")
        question == [stage |-> STATE_PAYROLL_CALC, period |-> period, scope |-> scope, calc_mode |-> calc_mode]
    IN
    IF sql.kind = "raise" THEN Raised(ctx, question)
    ELSE
    LET res == EngineRun(sql)
        payroll_run_id == _make_run_id("PR", period, uid)
        ctx1 == [ctx EXCEPT !.refs = DictPut(DictPut(@, "artifacts", res), "payroll_run_id", payroll_run_id),
                            !.history = Append(@, [state |-> STATE_PAYROLL_CALC, summary |-> "payroll query run", ref |-> payroll_run_id]),
                            !.state = STATE_TAX_CALC]
        rows == _to_rows(DictGet(res, "result", NoneResult))
        reply == IF rows # <<>> /\ rows[1].tuple /\ Len(rows[1].vals) >= 4
                 THEN [kind |-> "payroll_done", values |-> SubSeq(rows[1].vals, 1, 4)]
                 ELSE [kind |-> "payroll_uninterpretable", columns |-> 4]
    IN Returned(ctx1, [handled |-> TRUE, reply |-> reply, state |-> ctx1.state, artifacts |-> res,
                       suggestions |-> <<"gongje geomjeung jinhaeng", "change scope/period", "chwiso">>],
                question)

(***************************************************************************)
(* STATE 2) TAX_CALC                                                       *)
(***************************************************************************)
_state_tax_calc(ctx, sql, uid) ==
    IF _require(ctx, <<"period">>) # <<>>
    THEN Returned(ctx, [handled |-> TRUE, reply |-> [kind |-> "tax_missing_period"], state |-> ctx.state,
                        suggestions |-> <<"ibeondal gongje geomjeung", "2026-01 gongje geomjeung">>],
                  NoQuestion)
    ELSE
    LET period == ctx.slots["period"] IN
    IF ~Has(ctx.refs, "payroll_run_id")
    THEN LET ctx1 == [ctx EXCEPT !.state = STATE_PAYROLL_CALC] IN
         Returned(ctx1, [handled |-> TRUE, reply |-> [kind |-> "tax_needs_payroll"], state |-> ctx1.state,
                         suggestions |-> <<"2026-01 jeonjigwon geubyeo", "ibeondal jeonjigwon geubyeo">>],
                  NoQuestion)
    ELSE
    LET question == [stage |-> STATE_TAX_CALC, period |-> period] IN
    IF sql.kind = "raise" THEN Raised(ctx, question)
    ELSE
    LET res == EngineRun(sql)
        tax_run_id == _make_run_id("TX", period, uid)
        ctx1 == [ctx EXCEPT !.refs = DictPut(DictPut(@, "artifacts", res), "tax_run_id", tax_run_id),
                            !.history = Append(@, [state |-> STATE_TAX_CALC, summary |-> "deduction query run", ref |-> tax_run_id]),
                            !.state = STATE_PAYMENT_RUN]
        rows == _to_rows(DictGet(res, "result", NoneResult))
    IN
    IF rows # <<>> /\ rows[1].tuple /\ Len(rows[1].vals) >= 6
    THEN \* f"{rate_pct:.2f}" raises when float(rate) failed and rate_pct is the raw value
         IF ~FloatOk(rows[1].vals[5]) THEN Raised(ctx1, question)
         ELSE Returned(ctx1, [handled |-> TRUE,
                              reply |-> [kind |-> "tax_done", values |-> SubSeq(rows[1].vals, 1, 6)],
                              state |-> ctx1.state, artifacts |-> res,
                              suggestions |-> <<"jigeup jinhaeng", "2026-01-25 jigeup", "pay date open">>],
                       question)
    ELSE Returned(ctx1, [handled |-> TRUE, reply |-> [kind |-> "tax_uninterpretable", columns |-> 6],
                         state |-> ctx1.state, artifacts |-> res,
                         suggestions |-> <<"jigeup jinhaeng", "2026-01-25 jigeup", "pay date open">>],
                  question)

(***************************************************************************)
(* STATE 3) PAYMENT_RUN                                                    *)
(***************************************************************************)
_state_payment_run(ctx, sql, uid, confirm) ==
    IF _require(ctx, <<"period">>) # <<>>
    THEN Returned(ctx, [handled |-> TRUE, reply |-> [kind |-> "payment_missing_period"], state |-> ctx.state,
                        suggestions |-> <<"ibeondal jigeup", "2026-01 jigeup">>],
                  NoQuestion)
    ELSE
    LET period == ctx.slots["period"] IN
    IF ~Has(ctx.refs, "tax_run_id")
    THEN LET ctx1 == [ctx EXCEPT !.state = STATE_TAX_CALC] IN
         Returned(ctx1, [handled |-> TRUE, reply |-> [kind |-> "payment_needs_tax"], state |-> ctx1.state,
                         suggestions |-> <<"gongje geomjeung jinhaeng">>],
                  NoQuestion)
    ELSE
    LET tax_run_id == ctx.refs["tax_run_id"] IN
    IF _require(ctx, <<"pay_date">>) # <<>>
    THEN Returned(ctx, [handled |-> TRUE, reply |-> [kind |-> "payment_missing_pay_date"], state |-> ctx.state,
                        suggestions |-> <<"25il jigeup", "2026-01-25 jigeup">>],
                  NoQuestion)
    ELSE
    LET payment_method == DictGet(ctx.slots, "payment_method", "bank_transfer")
        ctx1 == [ctx EXCEPT !.slots = DictPut(@, "payment_method", payment_method)]
    IN
    IF ConfirmGate(confirm) = "prompt"
    THEN Returned(ctx1, [handled |-> TRUE,
                         reply |-> [kind |-> "payment_confirm_prompt", period |-> period, tax_run_id |-> tax_run_id,
                                    pay_date |-> ctx1.slots["pay_date"], method |-> payment_method],
                         state |-> ctx1.state, suggestions |-> <<"ye", "anio">>],
                  NoQuestion)
    ELSE IF ConfirmGate(confirm) = "cancel"
    THEN Returned(ctx1, [handled |-> TRUE, reply |-> [kind |-> "payment_cancelled"], state |-> ctx1.state,
                         suggestions |-> <<"jigeup silhaeng", "change pay date", "chwiso">>],
                  NoQuestion)
    ELSE
    LET question == [stage |-> STATE_PAYMENT_RUN, period |-> period, pay_date |-> ctx1.slots["pay_date"],
                     tax_run_id |-> tax_run_id]
    IN
    IF sql.kind = "raise" THEN Raised(ctx1, question)
    ELSE
    LET res == EngineRun(sql)
        payment_run_id == _make_run_id("PM", period, uid)
        ctx2 == [ctx1 EXCEPT !.refs = DictPut(DictPut(@, "artifacts", res), "payment_run_id", payment_run_id),
                             !.history = Append(@, [state |-> STATE_PAYMENT_RUN, summary |-> "payment query run", ref |-> payment_run_id]),
                             !.state = STATE_JOURNAL_POST]
    IN Returned(ctx2, [handled |-> TRUE, reply |-> [kind |-> "payment_done", payment_run_id |-> payment_run_id],
                       state |-> ctx2.state, artifacts |-> res,
                       suggestions |-> <<"2026-01-31 jeonpyo", "1/31 jeonpyo">>],
                question)

(***************************************************************************)
(* STATE 4) JOURNAL_POST                                                   *)
(***************************************************************************)
\* (0?[1-9]|1[0-2])\s*/\s*(0?[1-9]|[12]\d|3[01]) : month/day, as "-mm-dd"
MonthDayOf == [t \in {"1/31"} |-> "-01-31"]

\* period.split("-")[0]
YearOf(period) == IF period = LAST_MONTH_PERIOD THEN "2025" ELSE "2026"

\* the journal date read from the last user text, when the slot is not set yet
ParseJournalDate(ctx, period) ==
    LET last_text == DictGet(ctx.slots, "_last_user_text", <<>>) IN
    IF Has(ctx.slots, "journal_date") THEN ctx
    ELSE IF HasToken(last_text, DOMAIN FullDateOf)
         THEN [ctx EXCEPT !.slots = DictPut(@, "journal_date", FullDateOf[FirstToken(last_text, DOMAIN FullDateOf)])]
    ELSE IF HasToken(last_text, DOMAIN MonthDayOf)
         THEN [ctx EXCEPT !.slots = DictPut(@, "journal_date", YearOf(period) \o MonthDayOf[FirstToken(last_text, DOMAIN MonthDayOf)])]
    ELSE ctx

_state_journal_post(ctx, sql, uid, confirm) ==
    IF _require(ctx, <<"period">>) # <<>>
    THEN Returned(ctx, [handled |-> TRUE, reply |-> [kind |-> "journal_missing_period"], state |-> ctx.state,
                        suggestions |-> <<"ibeondal jeonpyo", "2026-01 jeonpyo">>],
                  NoQuestion)
    ELSE
    LET period == ctx.slots["period"] IN
    IF ~Has(ctx.refs, "payment_run_id")
    THEN LET ctx1 == [ctx EXCEPT !.state = STATE_PAYMENT_RUN] IN
         Returned(ctx1, [handled |-> TRUE, reply |-> [kind |-> "journal_needs_payment"], state |-> ctx1.state,
                         suggestions |-> <<"jigeup silhaeng">>],
                  NoQuestion)
    ELSE
    LET payment_run_id == ctx.refs["payment_run_id"]
        ctx1 == ParseJournalDate(ctx, period)
    IN
    IF ~Has(ctx1.slots, "journal_date")
    THEN Returned(ctx1, [handled |-> TRUE, reply |-> [kind |-> "journal_missing_journal_date"], state |-> ctx1.state,
                         suggestions |-> <<"2026-01-31 jeonpyo", "1/31 jeonpyo">>],
                  NoQuestion)
    ELSE
    LET coa_mapping_version == DictGet(ctx1.slots, "coa_mapping_version", "v1")
        ctx2 == [ctx1 EXCEPT !.slots = DictPut(@, "coa_mapping_version", coa_mapping_version)]
    IN
    IF ConfirmGate(confirm) = "prompt"
    THEN Returned(ctx2, [handled |-> TRUE,
                         reply |-> [kind |-> "journal_confirm_prompt", period |-> period, payment_run_id |-> payment_run_id,
                                    journal_date |-> ctx2.slots["journal_date"], coa_mapping_version |-> coa_mapping_version],
                         state |-> ctx2.state, suggestions |-> <<"ye", "anio">>],
                  NoQuestion)
    ELSE IF ConfirmGate(confirm) = "cancel"
    THEN Returned(ctx2, [handled |-> TRUE, reply |-> [kind |-> "journal_cancelled"], state |-> ctx2.state,
                         suggestions |-> <<"jeonpyo saengseong", "change journal date", "chwiso">>],
                  NoQuestion)
    ELSE
    LET question == [stage |-> STATE_JOURNAL_POST, period |-> period, payment_run_id |-> payment_run_id,
                     journal_date |-> ctx2.slots["journal_date"], coa_mapping_version |-> coa_mapping_version]
    IN
    IF sql.kind = "raise" THEN Raised(ctx2, question)
    ELSE
    LET res == EngineRun(sql)
        journal_run_id == _make_run_id("JV", period, uid)
        ctx3 == [ctx2 EXCEPT !.refs = DictPut(DictPut(@, "artifacts", res), "journal_run_id", journal_run_id),
                             !.history = Append(@, [state |-> STATE_JOURNAL_POST, summary |-> "journal query run", ref |-> journal_run_id]),
                             !.state = STATE_DONE]
    IN Returned(ctx3, [handled |-> TRUE, reply |-> [kind |-> "journal_done", journal_run_id |-> journal_run_id],
                       state |-> ctx3.state, artifacts |-> res,
                       suggestions |-> <<"ye", "anio", "show summary">>],
                question)

(***************************************************************************)
(* DONE                                                                    *)
(***************************************************************************)
\* variant: the soft clear resets state only
StateDoneKeepsActive(ctx) ==
    Returned([ctx EXCEPT !.state = ""],
             [handled |-> TRUE,
              reply |-> [kind |-> "done_summary",
                         period |-> DictGet(ctx.slots, "period", None),
                         scope |-> DictGet(ctx.slots, "employee_scope", None),
                         run_ids |-> DictOmit(ctx.refs, {"artifacts"})],
              state |-> None, suggestions |-> <<"cheoeumbuteo dasi", "chwiso">>],
             NoQuestion)

_state_done(ctx) ==
    LET ctx1 == [ctx EXCEPT !.active_scenario = "", !.state = ""] IN
    Returned(ctx1, [handled |-> TRUE,
                    reply |-> [kind |-> "done_summary",
                               period |-> DictGet(ctx.slots, "period", None),
                               scope |-> DictGet(ctx.slots, "employee_scope", None),
                               run_ids |-> DictOmit(ctx.refs, {"artifacts"})],
                    state |-> None, suggestions |-> <<"cheoeumbuteo dasi", "chwiso">>],
             NoQuestion)

\* variant: TAX_CALC without a period falls back to PAYROLL_CALC
HandleStateFallsBack(ctx, sql, uid, confirm) ==
    IF ctx.state = STATE_TAX_CALC /\ _require(ctx, <<"period">>) # <<>>
    THEN Returned([ctx EXCEPT !.state = STATE_PAYROLL_CALC],
                  [handled |-> TRUE, reply |-> [kind |-> "tax_missing_period"], state |-> STATE_PAYROLL_CALC,
                   suggestions |-> <<"ibeondal gongje geomjeung", "2026-01 gongje geomjeung">>],
                  NoQuestion)
    ELSE IF ctx.state = STATE_PAYROLL_CALC THEN _state_payroll_calc(ctx, sql, uid)
    ELSE IF ctx.state = STATE_TAX_CALC THEN _state_tax_calc(ctx, sql, uid)
    ELSE IF ctx.state = STATE_PAYMENT_RUN THEN _state_payment_run(ctx, sql, uid, confirm)
    ELSE IF ctx.state = STATE_JOURNAL_POST THEN _state_journal_post(ctx, sql, uid, confirm)
    ELSE IF ctx.state = STATE_DONE THEN _state_done(ctx)
    ELSE _state_payroll_calc([ctx EXCEPT !.state = STATE_PAYROLL_CALC], sql, uid)

_handle_state(ctx, sql, uid, confirm) ==
    IF ctx.state = STATE_PAYROLL_CALC THEN _state_payroll_calc(ctx, sql, uid)
    ELSE IF ctx.state = STATE_TAX_CALC THEN _state_tax_calc(ctx, sql, uid)
    ELSE IF ctx.state = STATE_PAYMENT_RUN THEN _state_payment_run(ctx, sql, uid, confirm)
    ELSE IF ctx.state = STATE_JOURNAL_POST THEN _state_journal_post(ctx, sql, uid, confirm)
    ELSE IF ctx.state = STATE_DONE THEN _state_done(ctx)
    ELSE _state_payroll_calc([ctx EXCEPT !.state = STATE_PAYROLL_CALC], sql, uid)

(***************************************************************************)
(* PayrollScenario.route_and_handle on the dict d read from the memory     *)
(* store.  The result tells what the call does to the store ("keep": no    *)
(* write, "clear": memory.clear, "set": memory.set of data), what it       *)
(* returns (out) or that it raises, and what happened on the way.          *)
(***************************************************************************)
\* variant: the slots of this message replace the stored ones
MergeSlotsReplaces(ctx_slots, slots) == DictOmit(slots, {"intent", "confirm"})

\* variant: every extracted slot is merged, intent and confirm included
MergeSlotsAll(ctx_slots, slots) == DictUpdate(ctx_slots, slots)

\* ctx.slots.update(...) of the slots of this message, except intent and confirm
MergeSlots(ctx_slots, slots) == DictUpdate(ctx_slots, DictOmit(slots, {"intent", "confirm"}))

Dispatched(state) ==
    IF state \in {STATE_PAYROLL_CALC, STATE_TAX_CALC, STATE_PAYMENT_RUN, STATE_JOURNAL_POST, STATE_DONE}
    THEN state ELSE STATE_PAYROLL_CALC

route_and_handle(d, user_text, sql, uid) ==
    LET slots == extract_slots(user_text)
        ctx0 == from_dict(d)
        is_trigger == _is_payroll_trigger(user_text, ctx0)
        fresh == ctx0.active_scenario # ACTIVE_SCENARIO
        ctx1 == IF fresh THEN ScenarioContext(ACTIVE_SCENARIO, STATE_PAYROLL_CALC, EmptyDict, EmptyDict, <<>>)
                ELSE ctx0
        ctx2 == [ctx1 EXCEPT !.slots = DictPut(@, "_last_user_text", user_text)]
        ctx3 == [ctx2 EXCEPT !.slots = MergeSlots(@, slots)]
        confirm == DictGet(slots, "confirm", None)
        ctx4 == _normalize_slots(ctx3)
        intent == DictGet(slots, "intent", None)
        ctx5 == IF intent # None THEN _maybe_jump_state(ctx4, intent) ELSE ctx4
        h == _handle_state(ctx5, sql, uid, confirm)
    IN
    IF ~is_trigger
    THEN [branch |-> "unhandled", store |-> "keep", data |-> d, out |-> [handled |-> FALSE], raised |-> FALSE,
          calls |-> 0, question |-> NoQuestion, dispatched |-> "", confirm |-> confirm, intent |-> intent,
          fresh |-> FALSE, entry |-> ctx0]
    ELSE IF intent = "EXIT"
    THEN [branch |-> "exit", store |-> "clear", data |-> d,
          out |-> [handled |-> TRUE, reply |-> [kind |-> "scenario_exit"], state |-> None, suggestions |-> <<>>],
          raised |-> FALSE, calls |-> 0, question |-> NoQuestion, dispatched |-> "", confirm |-> confirm,
          intent |-> intent, fresh |-> fresh, entry |-> ctx2]
    ELSE IF h.raised
    THEN [branch |-> "raised", store |-> "keep", data |-> d, out |-> h.out, raised |-> TRUE,
          calls |-> h.calls, question |-> h.question, dispatched |-> Dispatched(ctx5.state), confirm |-> confirm,
          intent |-> intent, fresh |-> fresh, entry |-> ctx5]
    ELSE [branch |-> "handled", store |-> "set", data |-> to_dict(h.ctx), out |-> h.out, raised |-> FALSE,
          calls |-> h.calls, question |-> h.question, dispatched |-> Dispatched(ctx5.state), confirm |-> confirm,
          intent |-> intent, fresh |-> fresh, entry |-> ctx5]

\* the memory store after the call
StoreAfter(m, session_id, r) ==
    IF r.store = "clear" THEN MemClear(m, session_id)
    ELSE IF r.store = "set" THEN MemSet(m, session_id, r.data)
    ELSE m

(***************************************************************************)
(* Inputs of the model: session ids, user messages, and the behaviours of  *)
(* the SQL engine.                                                         *)
(***************************************************************************)
Sessions == {"A"}

Messages == {
    <<"2026y1m", "jeonjigwon", "geubyeo", "cheori">>,
    <<"gongje", "geomjeung", "jinhaeng">>,
    <<"25il", "jigeup">>,
    <<"ye">>,
    <<"no">>,
    <<"anio">>,
    <<"chwiso">>,
    <<"geubyeo", "chwiso">>,
    <<"1/31", "jeonpyo">>,
    <<"hello">> }

Row(vals) == [tuple |-> TRUE, vals |-> vals]

ListResult(items) == [form |-> "list", parses |-> FALSE, items |-> items, nums |-> <<>>]

TextResult(parses, items, nums) == [form |-> "text", parses |-> parses, items |-> items, nums |-> nums]

SqlRaise == [kind |-> "raise"]

SqlError == [kind |-> "error"]

SqlResult(result) == [kind |-> "result", result |-> result]

\* one summary row of six numbers, as the text QuerySQLDatabaseTool returns
GoodRow == SqlResult(TextResult(TRUE, <<Row(<<"int", "dec", "dec", "dec", "dec", "int">>)>>, <<>>))

SqlOutcomes == {SqlRaise, GoodRow}

NoCall == [kind |-> "none"]

(***************************************************************************)
(* Sequential specification: one whole call of route_and_handle at a time. *)
(* last records the latest call: its inputs, the store before it, whether  *)
(* the previous turn of the same session was an exit, and what it did.     *)
(* exited is the set of sessions whose latest turn was an exit.  walk is   *)
(* the log of the turns of a scripted conversation (empty elsewhere).      *)
(***************************************************************************)
Procs == {1, 2}

Observed(session_id, user_text, sql, before, afterExit, r) ==
    [sid |-> session_id, msg |-> user_text, sql |-> IF r.calls = 1 THEN sql ELSE NoCall,
     before |-> before, afterExit |-> afterExit, r |-> r]

NoTurn == Observed("", <<>>, NoCall, EmptyDict, FALSE, route_and_handle(EmptyDict, <<>>, NoCall, FreshUid(EmptyDict, 0)))

NoLoad == [d |-> EmptyDict, msg |-> <<>>]

Init ==
    /\ mem = EmptyDict
    /\ exited = {}
    /\ last = NoTurn
    /\ pc = [p \in Procs |-> "idle"]
    /\ loc = [p \in Procs |-> NoLoad]
    /\ walk = <<>>

\* whether the call reaches sql_engine.run (decided before the engine answers)
CallsEngine(d, user_text) == route_and_handle(d, user_text, SqlRaise, FreshUid(d, 0)).calls = 1

\* the answers of the engine to consider for a call: one is enough when it is not asked
Answers(d, user_text, outcomes) == IF CallsEngine(d, user_text) THEN outcomes ELSE {SqlRaise}

Turn(session_id, user_text, sql) ==
    LET d == MemGet(mem, session_id)
        r == route_and_handle(d, user_text, sql, FreshUid(d, 0))
    IN
    /\ r.calls = 1 => Len(r.entry.history) < MaxHistory
    /\ mem' = StoreAfter(mem, session_id, r)
    /\ exited' = IF r.branch = "exit" THEN exited \cup {session_id} ELSE exited \ {session_id}
    /\ last' = Observed(session_id, user_text, sql, mem, session_id \in exited, r)
    /\ UNCHANGED <<pc, loc, walk>>

Next ==
    \E session_id \in Sessions, user_text \in Messages :
        \E sql \in Answers(MemGet(mem, session_id), user_text, SqlOutcomes) : Turn(session_id, user_text, sql)

Spec == Init /\ [][Next]_vars

\* the stored dict of the session of the latest call, before and after it
Pre == MemGet(last.before, last.sid)

Post == MemGet(mem, last.sid)

(***************************************************************************)
(* Properties of the sequential specification.                             *)
(***************************************************************************)
PreState == DictGet(Pre, "state", "")

PreRefs == DictGet(Pre, "refs", EmptyDict)

PostState == DictGet(Post, "state", "")

PostRefs == DictGet(Post, "refs", EmptyDict)

PostHistory == DictGet(Post, "history", <<>>)

PreHistory == DictGet(Pre, "history", <<>>)

Asked(stage) == last.r.calls = 1 /\ last.r.question.stage = stage

\* C1: the PAYMENT_RUN and JOURNAL_POST handlers call sql_engine.run only in a
\* turn whose own message parses to confirm=true (an earlier confirmation
\* does not carry over).
C1_ConfirmInSameTurn ==
    (Asked(STATE_PAYMENT_RUN) \/ Asked(STATE_JOURNAL_POST)) => _extract_confirm(last.msg) = "True"

C1_Witness == Asked(STATE_JOURNAL_POST) /\ last.r.branch = "handled" /\ last.msg = <<"ye">>

PrerequisiteOf(stage) ==
    IF stage = STATE_TAX_CALC THEN "payroll_run_id"
    ELSE IF stage = STATE_PAYMENT_RUN THEN "tax_run_id"
    ELSE "payment_run_id"

PredecessorOf(stage) ==
    IF stage = STATE_TAX_CALC THEN STATE_PAYROLL_CALC
    ELSE IF stage = STATE_PAYMENT_RUN THEN STATE_TAX_CALC
    ELSE STATE_PAYMENT_RUN

GuardedStages == {STATE_TAX_CALC, STATE_PAYMENT_RUN, STATE_JOURNAL_POST}

\* C2: TAX_CALC, PAYMENT_RUN and JOURNAL_POST issue their query only when the
\* run id of the preceding stage is in refs, also after an intent jump; and
\* when that ref is missing the handler sets state to the preceding stage and
\* issues no query.
C2_PrerequisiteGuard ==
    \A stage \in GuardedStages :
        /\ Asked(stage) => Has(last.r.entry.refs, PrerequisiteOf(stage))
        /\ (last.r.dispatched = stage /\ ~Has(last.r.entry.refs, PrerequisiteOf(stage)))
              => (last.r.calls = 0 /\ PostState = PredecessorOf(stage))

\* C3: no stage is stored without the ref of its predecessor: TAX_CALC needs
\* payroll_run_id, PAYMENT_RUN tax_run_id, JOURNAL_POST payment_run_id, and
\* DONE all four run ids.
C3_NoRefNoAdvance ==
    \A s \in DOMAIN mem :
        /\ \A stage \in GuardedStages : mem[s].state = stage => Has(mem[s].refs, PrerequisiteOf(stage))
        /\ mem[s].state = STATE_DONE =>
              {"payroll_run_id", "tax_run_id", "payment_run_id", "journal_run_id"} \subseteq DOMAIN mem[s].refs

GatedStages == {STATE_PAYMENT_RUN, STATE_JOURNAL_POST}

Unchanged == last.sid \in DOMAIN mem /\ PostRefs = PreRefs /\ PostState = PreState /\ last.r.calls = 0

\* C4 as stated: any message that parses to confirm=false, received in
\* PAYMENT_RUN or JOURNAL_POST, leaves refs and state as they were, on the
\* same stage, without an external call.
C4_DeclineKeepsStage ==
    (_extract_confirm(last.msg) = "False" /\ PreState \in GatedStages) => Unchanged

\* C4 amended: for the negative tokens that are not exit keywords (anio, ani,
\* no, nn) the context stays stored, refs are as they were and no external
\* call is issued; the state is as it was, except that a stage stored without
\* its prerequisite ref is redirected to its predecessor. (chwiso and jungdan
\* are exit keywords: they end the scenario.)
C4_DeclineKeepsStageUnlessExit ==
    (_extract_confirm(last.msg) = "False" /\ ~HasToken(last.msg, ExitWords) /\ PreState \in GatedStages) =>
        /\ last.sid \in DOMAIN mem
        /\ PostRefs = PreRefs
        /\ last.r.calls = 0
        /\ \/ PostState = PreState
           \/ ~Has(PreRefs, PrerequisiteOf(PreState)) /\ PostState = PredecessorOf(PreState)

C4_Witness ==
    /\ last.msg = <<"anio">>
    /\ PreState = STATE_JOURNAL_POST
    /\ last.r.out.reply.kind = "journal_cancelled"

\* C5: an exit keyword arriving while the scenario is active removes the
\* session's context from the store and returns the termination outcome with
\* state None; no slot merge, no stage handler and no sql_engine.run call
\* happen in that turn.
C5_ExitShortCircuits ==
    (HasToken(last.msg, ExitWords) /\ DictGet(Pre, "active_scenario", "") = ACTIVE_SCENARIO) =>
        /\ last.sid \notin DOMAIN mem
        /\ ~last.r.raised
        /\ last.r.out = [handled |-> TRUE, reply |-> [kind |-> "scenario_exit"], state |-> None, suggestions |-> <<>>]
        /\ last.r.dispatched = ""
        /\ last.r.calls = 0

C5_Witness ==
    /\ last.msg = <<"geubyeo", "chwiso">>
    /\ PreState = STATE_JOURNAL_POST
    /\ Has(PreRefs, "payment_run_id")
    /\ DictGet(Pre, "active_scenario", "") = ACTIVE_SCENARIO
    /\ last.sid \notin DOMAIN mem

StartsFresh ==
    /\ last.r.branch \in {"handled", "raised"}
    /\ last.r.fresh
    /\ last.r.entry.refs = EmptyDict
    /\ last.r.entry.history = <<>>
    /\ DOMAIN last.r.entry.slots \subseteq {"_last_user_text"} \cup DOMAIN extract_slots(last.msg)

StageOfIntent(intent) ==
    IF intent = "TAX" THEN STATE_TAX_CALC
    ELSE IF intent = "PAYMENT" THEN STATE_PAYMENT_RUN
    ELSE IF intent = "JOURNAL" THEN STATE_JOURNAL_POST
    ELSE STATE_PAYROLL_CALC

\* C6 as stated: after an exit turn, the next message of the session starts a
\* fresh scenario (nothing kept in slots, refs, history) and is dispatched to
\* the PAYROLL_CALC handler.
C6_NextStartsAtPayroll ==
    last.afterExit => (StartsFresh /\ last.r.dispatched = STATE_PAYROLL_CALC)

\* C6 amended: after an exit turn the store holds nothing for the session; the
\* next message is returned unhandled when it has no domain keyword, and
\* otherwise (unless it is an exit again) starts a fresh scenario dispatched
\* to the stage its intent names, PAYROLL_CALC for the PAYROLL intent.
C6_NextStartsFresh ==
    last.afterExit =>
        /\ Pre = EmptyDict
        /\ ~HasToken(last.msg, TriggerWords) => (last.r.branch = "unhandled" /\ mem = last.before)
        /\ (HasToken(last.msg, TriggerWords) /\ ~HasToken(last.msg, ExitWords)) =>
              (StartsFresh /\ last.r.dispatched = StageOfIntent(ExtractIntent(last.msg)))

C6_Witness == last.afterExit /\ StartsFresh /\ last.r.branch = "handled" /\ last.r.dispatched = STATE_PAYROLL_CALC

PreActive == DictGet(Pre, "active_scenario", "") = ACTIVE_SCENARIO

PreSlots == DictGet(Pre, "slots", EmptyDict)

PostSlots == DictGet(Post, "slots", EmptyDict)

\* the message of the latest call extracts none of the given slots
ExtractsNone(keys) == (DOMAIN extract_slots(last.msg)) \cap keys = {}

\* C12: once period and employee_scope are stored, a later turn of the same
\* active scenario whose message extracts neither hands the stage handler
\* (PAYMENT_RUN among them) a context with the same period and
\* employee_scope, and a handled turn stores them again unchanged, whatever
\* the stage transition.
C12_SlotsPersist ==
    (/\ PreActive
     /\ {"period", "employee_scope"} \subseteq DOMAIN PreSlots
     /\ ExtractsNone({"period", "employee_scope"})
     /\ last.r.branch \in {"handled", "raised"}) =>
        /\ \A k \in {"period", "employee_scope"} :
              Has(last.r.entry.slots, k) /\ last.r.entry.slots[k] = PreSlots[k]
        /\ last.r.branch = "handled" =>
              \A k \in {"period", "employee_scope"} : Has(PostSlots, k) /\ PostSlots[k] = PreSlots[k]

C12_Witness ==
    /\ PreActive
    /\ PreState = STATE_PAYMENT_RUN
    /\ last.msg = <<"25il", "jigeup">>
    /\ ~Has(PreSlots, "pay_date")
    /\ last.r.dispatched = STATE_PAYMENT_RUN
    /\ last.r.entry.slots["period"] = "2026-01"
    /\ last.r.entry.slots["employee_scope"] = "ALL"
    /\ last.r.out.reply.kind = "payment_confirm_prompt"

MissingSlotKinds ==
    {"payroll_missing_slots", "tax_missing_period", "payment_missing_period", "payment_missing_pay_date",
     "journal_missing_period", "journal_missing_journal_date"}

\* the latest call answered with a missing-slot prompt
MissingSlotTurn == last.r.branch = "handled" /\ last.r.out.reply.kind \in MissingSlotKinds

\* the same message sent once more, on what the latest call stored
SentAgain == route_and_handle(Post, last.msg, GoodRow, FreshUid(Post, 0))

\* C13: a turn answered with a missing-slot prompt calls the engine zero
\* times and its handler leaves the stage as it found it; the identical
\* message sent again gets the same reply, stores the same context and again
\* makes no engine call.
C13_MissingSlotIdempotent ==
    MissingSlotTurn =>
        /\ last.r.calls = 0
        /\ PostState = last.r.entry.state
        /\ SentAgain.branch = "handled"
        /\ SentAgain.out = last.r.out
        /\ SentAgain.data = Post
        /\ SentAgain.calls = 0

C13_Witness ==
    /\ MissingSlotTurn
    /\ last.r.out.reply.kind = "payment_missing_pay_date"
    /\ Has(PreRefs, "tax_run_id")
    /\ SentAgain.out.reply.kind = "payment_missing_pay_date"

\* C14: with no scenario active and no domain keyword in the message the
\* call returns handled=false and leaves the store unchanged; with a scenario
\* active every message, with or without keywords, is returned handled=true.
C14_TriggerEligibility ==
    /\ (last.sid # "" /\ ~PreActive /\ ~HasToken(last.msg, TriggerWords)) =>
          /\ last.r.branch = "unhandled"
          /\ last.r.out.handled = FALSE
          /\ mem = last.before
    /\ PreActive => (~last.r.raised /\ last.r.out.handled = TRUE)

RunIdKeys == {"payroll_run_id", "tax_run_id", "payment_run_id", "journal_run_id"}

\* the latest call was dispatched to the DONE handler
DoneTurn == last.r.branch = "handled" /\ last.r.dispatched = STATE_DONE

\* C15: in stage DONE a confirming message emits the summary built from the
\* four run ids in refs, a declining message (confirm=false) clears the
\* session's context, and once the summary has been delivered the store holds
\* no entry for the session.
C15_DoneClears ==
    DoneTurn =>
        /\ last.r.confirm = "True" =>
              /\ last.r.out.reply.kind = "done_summary"
              /\ \A k \in RunIdKeys : Has(last.r.out.reply.run_ids, k) /\ last.r.out.reply.run_ids[k] = PreRefs[k]
        /\ last.r.confirm = "False" => last.sid \notin DOMAIN mem
        /\ last.r.out.reply.kind = "done_summary" => last.sid \notin DOMAIN mem

StageIds == {STATE_PAYROLL_CALC, STATE_TAX_CALC, STATE_PAYMENT_RUN, STATE_JOURNAL_POST, STATE_DONE}

\* C17: in every stored context state is one of the five stage identifiers
\* whenever active_scenario is PAYROLL_E2E, and state is empty only when
\* active_scenario is empty.
C17_StoredStateValid ==
    \A s \in DOMAIN mem :
        /\ mem[s].active_scenario = ACTIVE_SCENARIO => mem[s].state \in StageIds
        /\ mem[s].state = "" => mem[s].active_scenario = ""

C17_Witness ==
    /\ DoneTurn
    /\ last.sid \in DOMAIN mem
    /\ mem[last.sid].state = ""
    /\ mem[last.sid].active_scenario = ""

RunIdKey(stage) ==
    IF stage = STATE_PAYROLL_CALC THEN "payroll_run_id"
    ELSE IF stage = STATE_TAX_CALC THEN "tax_run_id"
    ELSE IF stage = STATE_PAYMENT_RUN THEN "payment_run_id"
    ELSE "journal_run_id"

SuccessorOf(stage) ==
    IF stage = STATE_PAYROLL_CALC THEN STATE_TAX_CALC
    ELSE IF stage = STATE_TAX_CALC THEN STATE_PAYMENT_RUN
    ELSE IF stage = STATE_PAYMENT_RUN THEN STATE_JOURNAL_POST
    ELSE STATE_DONE

\* the run ids a refs dict holds
RunIds(refs) == [k \in (DOMAIN refs) \cap RunIdKeys |-> refs[k]]

\* the latest call made the engine call of a stage and returned
Completed == last.r.branch = "handled" /\ last.r.calls = 1

\* C19: a turn appends exactly one {state, summary, ref} entry to history and
\* writes a newly generated run id of that stage into refs exactly when the
\* stage's engine call was made and the state advanced; every other turn
\* leaves history and the run ids alone, and while the scenario stays active
\* the entries already in history are neither modified nor removed.
C19_HistoryAppendOnly ==
    /\ (PreActive /\ last.r.branch \in {"handled", "raised"}) =>
          /\ last.r.entry.history = PreHistory
          /\ RunIds(last.r.entry.refs) = RunIds(PreRefs)
    /\ Completed =>
          LET stage == last.r.question.stage
              e == PostHistory[Len(PostHistory)]
          IN
          /\ PostHistory = Append(last.r.entry.history, e)
          /\ DOMAIN e = {"state", "summary", "ref"}
          /\ e.state = stage
          /\ e.ref = PostRefs[RunIdKey(stage)]
          /\ \A i \in 1..Len(last.r.entry.history) : last.r.entry.history[i].ref # e.ref
          /\ \A k \in DOMAIN RunIds(last.r.entry.refs) : last.r.entry.refs[k] # e.ref
          /\ DOMAIN RunIds(PostRefs) = DOMAIN RunIds(last.r.entry.refs) \cup {RunIdKey(stage)}
          /\ \A k \in DOMAIN RunIds(last.r.entry.refs) \ {RunIdKey(stage)} : PostRefs[k] = last.r.entry.refs[k]
          /\ PostState = SuccessorOf(stage)
          /\ last.r.entry.state = stage
    /\ (last.r.branch = "handled" /\ last.r.calls = 0) =>
          /\ PostHistory = last.r.entry.history
          /\ RunIds(PostRefs) = RunIds(last.r.entry.refs)
    /\ last.r.branch \in {"raised", "unhandled"} => mem = last.before

C19_Witness ==
    /\ Completed
    /\ PreActive
    /\ last.r.question.stage = STATE_PAYMENT_RUN
    /\ Len(PreHistory) = 2
    /\ Len(PostHistory) = 3
    /\ PostHistory[3].ref = PostRefs["payment_run_id"]

\* the stage the handler of the latest call ran on (after the intent jump)
RanStage == last.r.dispatched

\* C20: after the optional intent jump, the handler of a turn leaves the
\* state where it was, or moves it to the immediate successor (only when the
\* engine call of the stage it ran was issued), to the immediate predecessor
\* (only when the prerequisite ref is missing), or to inactive (after DONE);
\* a message whose intent names no other stage is handled by the stage the
\* session was stored in, so no turn skips a stage.
C20_OneStepTransitions ==
    /\ last.r.branch = "handled" =>
          \/ PostState = RanStage
          \/ /\ RanStage # STATE_DONE
             /\ PostState = SuccessorOf(RanStage)
             /\ Asked(RanStage)
          \/ /\ RanStage \in GuardedStages
             /\ PostState = PredecessorOf(RanStage)
             /\ ~Has(last.r.entry.refs, PrerequisiteOf(RanStage))
             /\ last.r.calls = 0
          \/ /\ RanStage = STATE_DONE
             /\ PostState = ""
             /\ Post.active_scenario = ""
    /\ (/\ PreActive
        /\ last.r.branch \in {"handled", "raised"}
        /\ (last.r.intent = None \/ StageOfIntent(last.r.intent) = PreState)) =>
          RanStage = PreState

C20_Witness ==
    /\ last.r.branch = "handled"
    /\ PreActive
    /\ last.r.intent = None
    /\ PreState = STATE_PAYMENT_RUN
    /\ Asked(STATE_PAYMENT_RUN)
    /\ PostState = STATE_JOURNAL_POST

(***************************************************************************)
(* Engine specification: few messages, every kind of answer of the SQL     *)
(* engine (failure, an error dict, rows of several shapes).                *)
(***************************************************************************)
EngineMessages == {
    <<"2026y1m", "jeonjigwon", "geubyeo", "cheori">>,
    <<"gongje", "geomjeung", "jinhaeng">>,
    <<"hello">> }

\* what the engine may answer: it raises, returns {error}, the expected row,
\* one summary row of four numbers, a six-column row whose rate is NULL, a
\* six-column row whose rate is a non-numeric string, no row at all, a
\* scalar instead of a row, a text literal_eval rejects that holds two numbers
EngineOutcomes ==
    {SqlRaise, SqlError, GoodRow,
     SqlResult(TextResult(TRUE, <<Row(<<"int", "dec", "dec", "int">>)>>, <<>>)),
     SqlResult(TextResult(TRUE, <<Row(<<"int", "dec", "dec", "dec", "null", "int">>)>>, <<>>)),
     SqlResult(ListResult(<<Row(<<"int", "dec", "dec", "dec", "str", "int">>)>>)),
     SqlResult(TextResult(TRUE, <<>>, <<>>)),
     SqlResult(TextResult(TRUE, <<[tuple |-> FALSE, vals |-> <<"int">>]>>, <<>>)),
     SqlResult(TextResult(FALSE, <<>>, <<"int", "int">>))}

NextEngine ==
    \E session_id \in Sessions, user_text \in EngineMessages :
        \E sql \in Answers(MemGet(mem, session_id), user_text, EngineOutcomes) : Turn(session_id, user_text, sql)

SpecEngine == Init /\ [][NextEngine]_vars

\* C7: when the SQL service call of a stage handler fails, by an {error: ...}
\* outcome or by raising, the stored state, refs and history after the turn
\* equal those before it.
C7_FailedCallKeepsContext ==
    (last.r.calls = 1 /\ last.sql.kind \in {"error", "raise"}) =>
        (PostState = PreState /\ PostRefs = PreRefs /\ PostHistory = PreHistory)

\* the rows a result holds, when it is a list or a text that evaluates to one
SummaryRows(result) ==
    IF result.form = "list" \/ (result.form = "text" /\ result.parses) THEN result.items ELSE <<>>

Columns(stage) == IF stage = STATE_PAYROLL_CALC THEN 4 ELSE 6

\* a single row of exactly the expected number of values, all numeric
ExpectedShape(stage, result) ==
    /\ Len(SummaryRows(result)) = 1
    /\ SummaryRows(result)[1].tuple
    /\ Len(SummaryRows(result)[1].vals) = Columns(stage)
    /\ \A i \in 1..Columns(stage) : SummaryRows(result)[1].vals[i] \in NumericTags

\* C8: when PAYROLL_CALC or TAX_CALC receives a result that is not a single
\* summary row of the expected shape (4 or 6 values of the expected types),
\* route_and_handle does not raise and returns the degraded reply naming the
\* expected column count.
C8_UnexpectedShapeDegrades ==
    \A stage \in {STATE_PAYROLL_CALC, STATE_TAX_CALC} :
        (Asked(stage) /\ last.sql.kind = "result" /\ ~ExpectedShape(stage, last.sql.result)) =>
            /\ ~last.r.raised
            /\ last.r.out.reply.kind \in {"payroll_uninterpretable", "tax_uninterpretable"}
            /\ last.r.out.reply.columns = Columns(stage)

(***************************************************************************)
(* Shared-store specification: two sessions over one memory manager.       *)
(***************************************************************************)
SharedSessions == {"A", "B"}

SharedMessages == {
    <<"2026y1m", "jeonjigwon", "geubyeo", "cheori">>,
    <<"gongje", "geomjeung", "jinhaeng">>,
    <<"chwiso">> }

NextShared ==
    \E session_id \in SharedSessions, user_text \in SharedMessages :
        \E sql \in Answers(MemGet(mem, session_id), user_text, SqlOutcomes) : Turn(session_id, user_text, sql)

SpecShared == Init /\ [][NextShared]_vars

\* the store holding only the entry of one session
OnlyOf(m, session_id) == [s \in (DOMAIN m) \cap {session_id} |-> m[s]]

\* C9: a turn of session A (exit included) never changes the stored context
\* of another session B, and what it stores for A is what A's turn alone, on
\* a store holding only A's entry, produces.
C9_SessionsIsolated ==
    /\ \A s \in SharedSessions \ {last.sid} :
          /\ s \in DOMAIN mem <=> s \in DOMAIN last.before
          /\ MemGet(mem, s) = MemGet(last.before, s)
    /\ last.sid \in SharedSessions =>
          OnlyOf(mem, last.sid) = StoreAfter(OnlyOf(last.before, last.sid), last.sid, last.r)

C9_Witness ==
    /\ last.sid = "B"
    /\ last.r.branch = "exit"
    /\ "B" \in DOMAIN last.before
    /\ "A" \in DOMAIN mem
    /\ mem["A"].state = STATE_PAYMENT_RUN

(***************************************************************************)
(* Concurrent specification: two calls of route_and_handle for the same    *)
(* session, each split where it touches the store: the load at the top     *)
(* (memory.get) and the write at the end (memory.set or memory.clear).     *)
(***************************************************************************)
ConcSession == "A"

ConcMessages == {
    <<"2026y1m", "jeonjigwon", "geubyeo", "cheori">>,
    <<"gongje", "geomjeung", "jinhaeng">>,
    <<"chwiso">> }

Load(p, user_text) ==
    /\ pc[p] = "idle"
    /\ pc' = [pc EXCEPT ![p] = "loaded"]
    /\ loc' = [loc EXCEPT ![p] = [d |-> MemGet(mem, ConcSession), msg |-> user_text]]
    /\ UNCHANGED <<mem, exited, last, walk>>

Finish(p) ==
    LET r == route_and_handle(loc[p].d, loc[p].msg, GoodRow, FreshUid(loc[p].d, p)) IN
    /\ pc[p] = "loaded"
    /\ r.calls = 1 => Len(r.entry.history) < MaxHistory
    /\ mem' = StoreAfter(mem, ConcSession, r)
    /\ exited' = IF r.branch = "exit" THEN exited \cup {ConcSession} ELSE exited \ {ConcSession}
    /\ last' = Observed(ConcSession, loc[p].msg, GoodRow, mem, ConcSession \in exited, r)
    /\ pc' = [pc EXCEPT ![p] = "stored"]
    /\ UNCHANGED <<loc, walk>>

Return(p) ==
    /\ pc[p] = "stored"
    /\ \A q \in Procs : pc[q] # "loaded"
    /\ pc' = [pc EXCEPT ![p] = "idle"]
    /\ loc' = [loc EXCEPT ![p] = NoLoad]
    /\ UNCHANGED <<mem, exited, last, walk>>

NextConc ==
    \/ \E p \in Procs, user_text \in ConcMessages : Load(p, user_text)
    \/ \E p \in Procs : Finish(p)
    \/ \E p \in Procs : Return(p)

SpecConc == Init /\ [][NextConc]_vars

\* the store a dict was loaded from
BaseStore(d) == IF d = EmptyDict THEN EmptyDict ELSE DictPut(EmptyDict, ConcSession, d)

\* the store after the turn of p and then the turn of q, one after the other
SerialStore(p, q) ==
    LET r1 == route_and_handle(loc[p].d, loc[p].msg, GoodRow, FreshUid(loc[p].d, p))
        m1 == StoreAfter(BaseStore(loc[p].d), ConcSession, r1)
        r2 == route_and_handle(MemGet(m1, ConcSession), loc[q].msg, GoodRow, FreshUid(loc[q].d, q))
    IN StoreAfter(m1, ConcSession, r2)

\* C10: when two calls for the same session overlap (both load the context
\* before either stores it) no update is lost: the final store is the result
\* of the two turns in some serial order.
C10_NoLostUpdate ==
    (pc[1] = "stored" /\ pc[2] = "stored" /\ loc[1].d = loc[2].d) =>
        (mem = SerialStore(1, 2) \/ mem = SerialStore(2, 1))

(***************************************************************************)
(* Fault specification: the store is a dict the host owns (it can be       *)
(* st.session_state), so a stored state can be overwritten from outside    *)
(* with a value that is no stage identifier.                               *)
(***************************************************************************)
CorruptStates == {"BOGUS"}

Corrupt(session_id, bad) ==
    /\ session_id \in DOMAIN mem
    /\ mem[session_id].active_scenario = ACTIVE_SCENARIO
    /\ mem[session_id].state \in StageIds
    /\ mem' = [mem EXCEPT ![session_id] = DictPut(@, "state", bad)]
    /\ UNCHANGED <<exited, last, pc, loc, walk>>

NextFault ==
    \/ \E session_id \in Sessions, user_text \in EngineMessages :
          \E sql \in Answers(MemGet(mem, session_id), user_text, SqlOutcomes) : Turn(session_id, user_text, sql)
    \/ \E session_id \in Sessions, bad \in CorruptStates : Corrupt(session_id, bad)

SpecFault == Init /\ [][NextFault]_vars

\* the latest call found an active context whose state is no stage identifier
PreCorrupt == last.sid # "" /\ PreActive /\ PreState \notin StageIds

\* C18: when the stored state of an active session is outside the five stage
\* identifiers, the next turn does not raise, resets the state to
\* PAYROLL_CALC and returns a reply that tells the user of the reset.
C18_UnknownStateResets ==
    (PreCorrupt /\ last.r.branch # "exit") =>
        /\ ~last.r.raised
        /\ PostState = STATE_PAYROLL_CALC
        /\ last.r.out.reply.kind = "state_reset"

(***************************************************************************)
(* Walk specification: the five-turn conversation of one session, in       *)
(* order, against every kind of answer of the SQL engine.  walk logs each  *)
(* turn: what the call did and what the store holds for the session after. *)
(***************************************************************************)
WalkSession == "A"

WalkScript == <<
    <<"2026y1m", "jeonjigwon", "geubyeo", "cheori">>,
    <<"gongje", "geomjeung", "jinhaeng">>,
    <<"25il", "jigeup">>,
    <<"ye">>,
    <<"chwiso">> >>

WalkTurn(sql) ==
    LET d == MemGet(mem, WalkSession)
        user_text == WalkScript[Len(walk) + 1]
        r == route_and_handle(d, user_text, sql, FreshUid(d, 0))
        m == StoreAfter(mem, WalkSession, r)
    IN
    /\ mem' = m
    /\ exited' = IF r.branch = "exit" THEN exited \cup {WalkSession} ELSE exited \ {WalkSession}
    /\ last' = Observed(WalkSession, user_text, sql, mem, WalkSession \in exited, r)
    /\ walk' = Append(walk, [r |-> r, sql |-> IF r.calls = 1 THEN sql ELSE NoCall,
                              stored |-> WalkSession \in DOMAIN m, data |-> MemGet(m, WalkSession)])
    /\ UNCHANGED <<pc, loc>>

NextWalk ==
    /\ Len(walk) < Len(WalkScript)
    /\ \E sql \in Answers(MemGet(mem, WalkSession), WalkScript[Len(walk) + 1], EngineOutcomes) : WalkTurn(sql)

SpecWalk == Init /\ [][NextWalk]_vars

\* every engine call of the conversation so far was answered with a result,
\* in PAYROLL_CALC and TAX_CALC the one summary row the stage expects
WalkAnswered ==
    \A i \in 1..Len(walk) :
        walk[i].r.calls = 1 =>
            /\ walk[i].sql.kind = "result"
            /\ walk[i].r.question.stage \in {STATE_PAYROLL_CALC, STATE_TAX_CALC} =>
                  ExpectedShape(walk[i].r.question.stage, walk[i].sql.result)

WalkStage(i) == DictGet(walk[i].data, "state", "")

WalkRefs(i) == DictGet(walk[i].data, "refs", EmptyDict)

\* the run ids (of the three the conversation produces) in refs after turn i
WalkRunIds(i) == (DOMAIN WalkRefs(i)) \cap {"payroll_run_id", "tax_run_id", "payment_run_id", "journal_run_id"}

\* C11: from an empty store the five turns "2026y1m jeonjigwon geubyeo
\* cheori", "gongje geomjeung jinhaeng", "25il jigeup", "ye", "chwiso", the
\* engine answering each call, store the stages TAX_CALC, PAYMENT_RUN, PAYMENT_RUN,
\* JOURNAL_POST and then nothing; the engine is called exactly in turns 1, 2
\* and 4; payroll_run_id, tax_run_id and payment_run_id first appear in refs
\* after turns 1, 2 and 4; turn 3 returns the confirmation prompt with
\* pay_date 2026-01-25.
C11_FiveTurnWalk ==
    WalkAnswered =>
        /\ Len(walk) >= 1 =>
              /\ walk[1].stored /\ WalkStage(1) = STATE_TAX_CALC
              /\ walk[1].r.calls = 1
              /\ WalkRunIds(1) = {"payroll_run_id"}
        /\ Len(walk) >= 2 =>
              /\ walk[2].stored /\ WalkStage(2) = STATE_PAYMENT_RUN
              /\ walk[2].r.calls = 1
              /\ WalkRunIds(2) = {"payroll_run_id", "tax_run_id"}
        /\ Len(walk) >= 3 =>
              /\ walk[3].stored /\ WalkStage(3) = STATE_PAYMENT_RUN
              /\ walk[3].r.calls = 0
              /\ WalkRunIds(3) = {"payroll_run_id", "tax_run_id"}
              /\ walk[3].r.out.reply.kind = "payment_confirm_prompt"
              /\ walk[3].r.out.reply.pay_date = "2026-01-25"
              /\ walk[3].data.slots["pay_date"] = "2026-01-25"
        /\ Len(walk) >= 4 =>
              /\ walk[4].stored /\ WalkStage(4) = STATE_JOURNAL_POST
              /\ walk[4].r.calls = 1
              /\ WalkRunIds(4) = {"payroll_run_id", "tax_run_id", "payment_run_id"}
        /\ Len(walk) >= 5 =>
              /\ ~walk[5].stored
              /\ walk[5].r.calls = 0
              /\ walk[5].r.branch = "exit"

C11_Witness ==
    /\ Len(walk) = 5
    /\ WalkAnswered
    /\ walk[4].r.out.reply.kind = "payment_done"
    /\ WalkSession \notin DOMAIN mem

(***************************************************************************)
(* The RPC payroll scenario of src/app_hr_sql.py: rpc_run and its helpers. *)
(* Reply texts are abstracted to a kind; the suggestion chips, constants   *)
(* of each return, are left out.  Additional romanised tokens:             *)
(*   inwon = U+C778 U+C6D0 (headcount)   johoe = U+C870 U+D68C (look up)   *)
(*   naeyeok = U+B0B4 U+C5ED (details)   gyeolgwa = U+ACB0 U+ACFC (result) *)
(*   yoyak = U+C694 U+C57D (summary)     geonsu = U+AC74 U+C218 (count)    *)
(*   chonggeubyeo = U+CD1D U+AE09 U+C5EC (total gross)                     *)
(*   siljigeup = U+C2E4 U+C9C0 U+AE09 (net pay)                            *)
(*   chonggongje = U+CD1D U+ACF5 U+C81C (total deductions)                 *)
(***************************************************************************)
RPC_ACTIVE == "PAYROLL_RPC"

S_PAYROLL == "PAYROLL"

S_TAX == "TAX"

S_PAYMENT == "PAYMENT"

S_JOURNAL == "JOURNAL"

S_DONE == "DONE"

\* a word of A directly followed by a word of B (the regex allows \s* between)
HasPair(text, A, B) == \E i \in 1..(Len(text) - 1) : text[i] \in A /\ text[i + 1] \in B

extract_period(text) ==
    IF HasToken(text, DOMAIN YearMonthOf) THEN YearMonthOf[FirstToken(text, DOMAIN YearMonthOf)]
    ELSE IF HasToken(text, DOMAIN YearWolOf) THEN YearWolOf[FirstToken(text, DOMAIN YearWolOf)]
    ELSE IF HasToken(text, DOMAIN MonthWolOf) THEN "2026-" \o MonthWolOf[FirstToken(text, DOMAIN MonthWolOf)]
    ELSE IF HasToken(text, ThisMonthTokens) THEN "2026-01"
    ELSE None

extract_scope(text) ==
    IF HasToken(text, {"jeonjigwon", "jeonche", "jeonsa", "modu", "jeonbuseo"}) THEN "ALL"
    ELSE IF HasToken(text, DOMAIN DeptOf) THEN DeptOf[FirstToken(text, DOMAIN DeptOf)]
    ELSE None

\* (0?[1-9]|1[0-2])\s*/\s*(0?[1-9]|[12]\d|3[01]) : "__MD__:month:day"
MonthDayMarkOf == [t \in {"1/31"} |-> "__MD__:1:31"]

extract_date_any(text) ==
    IF HasToken(text, DOMAIN FullDateOf) THEN FullDateOf[FirstToken(text, DOMAIN FullDateOf)]
    ELSE IF HasToken(text, DOMAIN MonthDayMarkOf) THEN MonthDayMarkOf[FirstToken(text, DOMAIN MonthDayMarkOf)]
    ELSE IF HasToken(text, DOMAIN DayOf) THEN "__DAY__:" \o DayOf[FirstToken(text, DOMAIN DayOf)]
    ELSE None

extract_confirm(text) ==
    IF Len(text) = 1 /\ text[1] \in {"ye", "ne", "eung", "jinhaeng", "silhaeng", "hwakjeong", "ok", "ok_jamo"} THEN "True"
    ELSE IF Len(text) = 1 /\ text[1] \in {"anio", "ani", "chwiso", "jungdan", "no", "nn"} THEN "False"
    ELSE None

is_execute_intent(text) ==
    HasToken(text, {"cheori", "silhaeng", "jinhaeng", "gyesan", "sanjeonghae", "dollyeo", "saengseonghae",
                    "deungnok", "jeonpyosaengseong", "jigeuphae"})

is_query_intent(text) ==
    HasToken(text, {"myeotmyeong", "inwon", "daesang", "chongaek", "hapgye", "geumaek", "geonsu", "gyeolgwa",
                    "naeyeok", "riseuteu", "sangse", "johoe", "boyeojwo"})

\* words containing gongje or segeum
RpcTaxWords == {"gongje", "segeum", "chonggongje"}

\* words containing jigeup, iche or songgeum
RpcPaymentWords == {"jigeup", "iche", "songgeum", "siljigeup", "chongsiljigeup", "jigeuphae"}

\* words containing jeonpyo or bungae
RpcJournalWords == {"jeonpyo", "bungae", "jeonpyosaengseong"}

\* the day part of a "__MD__:m:d" marker as "-mm-dd"
MonthDayDigits == [raw \in {"__MD__:1:31"} |-> "-01-31"]

resolve_md(raw, period_yyyy_mm) ==
    IF raw = None THEN None
    ELSE IF raw \in DOMAIN MonthDayDigits THEN YearOf(period_yyyy_mm) \o MonthDayDigits[raw]
    ELSE IF IsDayMarker(raw) THEN period_yyyy_mm \o "-" \o DayDigits(raw)
    ELSE raw

(***************************************************************************)
(* Values of a result row: a string, NULL, or a dict (the summary column). *)
(***************************************************************************)
StrVal(x) == [t |-> "str", v |-> x]

NullVal == [t |-> "null", v |-> ""]

DictVal(d) == [t |-> "dict", v |-> d]

\* str(value)
StrOf(val) == IF val.t = "null" THEN "None" ELSE val.v

\* _to_rows of app_hr_sql.py (no numeric fallback)
app_to_rows(result) ==
    IF result.form = "list" THEN result.items
    ELSE IF result.form = "text" /\ result.parses THEN result.items
    ELSE <<>>

\* the summary column of the first row of a process_runs result
SummaryOf(result) ==
    LET rr == app_to_rows(result) IN
    IF rr # <<>> /\ rr[1].tuple /\ Len(rr[1].vals) >= 7 /\ rr[1].vals[7].t = "dict" THEN rr[1].vals[7].v
    ELSE EmptyDict

(***************************************************************************)
(* exec_sql: the k-th call of a turn is answered by db[k]: it raises or    *)
(* returns the text of the result.                                         *)
(***************************************************************************)
RpcRaise == [kind |-> "raise"]

RpcResult(result) == [kind |-> "result", result |-> result]

\* the uuid the database generates for the next run of a context
NewRunId(ctx) == <<"u1", "u2", "u3", "u4", "u5", "u6", "u7", "u8", "u9">>[Len(DictGet(ctx, "history", <<>>)) + 1]

GoodSummary == [employee_count |-> "int", total_gross |-> "dec", total_deductions |-> "dec",
                total_net_pay |-> "dec", avg_deduction_rate |-> "dec"]

NullRateSummary == [employee_count |-> "int", total_gross |-> "dec", total_deductions |-> "dec",
                    total_net_pay |-> "dec", avg_deduction_rate |-> "null"]

\* one row of process_runs: run_id, process_type, period, scope, status, params, summary, ...
RunRowText(summary) ==
    RpcResult(TextResult(TRUE, <<Row(<<StrVal("id"), StrVal("type"), StrVal("period"), StrVal("scope"),
                                        StrVal("DONE"), DictVal(EmptyDict), DictVal(summary), NullVal,
                                        StrVal("ts"), StrVal("ts")>>)>>, <<>>))

\* the answers of the database to a query of rpc_run, by the query asked
RpcOutcomes(query, ctx) ==
    IF query = "fetch_run" THEN {RpcRaise, RunRowText(GoodSummary), RunRowText(NullRateSummary)}
    ELSE IF query = "fetch_lines" THEN {RpcRaise, RpcResult(TextResult(TRUE, <<>>, <<>>))}
    ELSE {RpcRaise,
          RpcResult(TextResult(TRUE, <<Row(<<NullVal>>)>>, <<>>)),
          RpcResult(TextResult(TRUE, <<Row(<<StrVal(NewRunId(ctx))>>)>>, <<>>))}

MaxExec == 3

(***************************************************************************)
(* Outcome of rpc_run: what it does to the store, what it returns or that  *)
(* it raises, the exec_sql calls it issued and the path it took.  ctx is   *)
(* the dict memory.get returned when the scenario is active: what rpc_run  *)
(* writes into it is in the store at once, also when a later step raises.  *)
(***************************************************************************)
RpcReturn(store, ctx, path, reply, state, calls, sqls) ==
    [raised |-> FALSE, store |-> store, data |-> ctx, path |-> path, calls |-> calls,
     out |-> [handled |-> TRUE, reply |-> reply, state |-> state, rpc_sqls |-> sqls]]

RpcRaised(store, ctx, path, calls) ==
    [raised |-> TRUE, store |-> store, data |-> ctx, path |-> path, calls |-> calls, out |-> [raised |-> TRUE]]

\* the store effect of an exception: writes made in place so far stay
InPlace(aliased) == IF aliased THEN "set" ELSE "keep"

(***************************************************************************)
(* rpc_answer_query_from_refs, its exec_sql calls answered from db.        *)
(* none: it returned None.                                                 *)
(***************************************************************************)
NoAnswer == [none |-> TRUE, raised |-> FALSE, reply |-> [kind |-> "none"], sqls |-> <<>>, calls |-> <<>>]

Answer(reply, sqls, calls) == [none |-> FALSE, raised |-> FALSE, reply |-> reply, sqls |-> sqls, calls |-> calls]

AnswerRaised(calls) == [none |-> FALSE, raised |-> TRUE, reply |-> [kind |-> "none"], sqls |-> <<>>, calls |-> calls]

\* variant: the answer is produced by running the payroll RPC again
AnswerRerunsPayroll(ctx, user_text, db) ==
    IF DictGet(DictGet(ctx, "refs", EmptyDict), "payroll_run_id", None) = None THEN NoAnswer
    ELSE IF db[1].kind = "raise" THEN AnswerRaised(<<"rpc_payroll_run">>)
    ELSE Answer([kind |-> "summary", value |-> SummaryOf(db[1].result)], <<"rpc_payroll_run">>, <<"rpc_payroll_run">>)

rpc_answer_query_from_refs(ctx, user_text, db) ==
    LET refs == DictGet(ctx, "refs", EmptyDict)
        ask_headcount == HasToken(user_text, {"inwon", "myeotmyeong", "daesang"})
        ask_total_gross == HasToken(user_text, {"chonggeubyeo", "gross"})
        ask_total_net == HasToken(user_text, {"siljigeup", "chongsiljigeup", "net"})
        ask_total_ded == HasToken(user_text, {"chonggongje", "deduction"}) \/ HasPair(user_text, {"gongje"}, {"chongaek"})
        ask_payment_lines == \/ HasPair(user_text, {"jigeup"}, {"rain", "naeyeok", "geonsu"})
                             \/ HasPair(user_text, {"iche"}, {"geonsu"})
        ask_journal_lines == \/ HasPair(user_text, {"jeonpyo"}, {"rain", "naeyeok", "geonsu"})
                             \/ HasPair(user_text, {"bungae"}, {"naeyeok"})
        payroll_run_id == DictGet(refs, "payroll_run_id", None)
        tax_run_id == DictGet(refs, "tax_run_id", None)
        payment_run_id == DictGet(refs, "payment_run_id", None)
        journal_run_id == DictGet(refs, "journal_run_id", None)
        t1 == IF HasToken(user_text, RpcTaxWords) /\ tax_run_id # None THEN tax_run_id ELSE payroll_run_id
        t2 == IF HasToken(user_text, RpcPaymentWords) /\ payment_run_id # None THEN payment_run_id ELSE t1
        target_run_id == IF HasToken(user_text, RpcJournalWords) /\ journal_run_id # None THEN journal_run_id ELSE t2
    IN
    IF target_run_id = None THEN NoAnswer
    ELSE IF db[1].kind = "raise" THEN AnswerRaised(<<"fetch_run">>)
    ELSE
    LET summary == SummaryOf(db[1].result) IN
    IF ask_headcount
    THEN IF db[2].kind = "raise" THEN AnswerRaised(<<"fetch_run", "fetch_run">>)
         ELSE Answer([kind |-> "headcount", value |-> DictGet(SummaryOf(db[2].result), "employee_count", None)],
                     <<"fetch_run">>, <<"fetch_run", "fetch_run">>)
    ELSE IF ask_total_gross
    THEN Answer([kind |-> "total_gross", value |-> DictGet(summary, "total_gross", None)], <<"fetch_run">>, <<"fetch_run">>)
    ELSE IF ask_total_ded
    THEN Answer([kind |-> "total_deductions", value |-> DictGet(summary, "total_deductions", None)], <<"fetch_run">>, <<"fetch_run">>)
    ELSE IF ask_total_net
    THEN Answer([kind |-> "total_net", value |-> DictGet(summary, "total_net_pay", DictGet(summary, "pay_total", None))],
                <<"fetch_run">>, <<"fetch_run">>)
    ELSE IF ask_payment_lines /\ payment_run_id # None
    THEN IF db[2].kind = "raise" THEN AnswerRaised(<<"fetch_run", "fetch_lines">>)
         ELSE Answer([kind |-> "payment_lines", value |-> Len(app_to_rows(db[2].result))],
                     <<"fetch_lines">>, <<"fetch_run", "fetch_lines">>)
    ELSE IF ask_journal_lines /\ journal_run_id # None
    THEN IF db[2].kind = "raise" THEN AnswerRaised(<<"fetch_run", "fetch_lines">>)
         ELSE Answer([kind |-> "journal_lines", value |-> Len(app_to_rows(db[2].result))],
                     <<"fetch_lines">>, <<"fetch_run", "fetch_lines">>)
    ELSE Answer([kind |-> "summary", value |-> summary], <<"fetch_run">>, <<"fetch_run">>)

(***************************************************************************)
(* The stage blocks of rpc_run.  slots is ctx["slots"] after the merge.    *)
(***************************************************************************)
\* ctx with the run id of a stage written to refs and appended to history
WithRun(ctx, key, stage, id) ==
    [ctx EXCEPT !.refs = DictPut(@, key, id), !.history = Append(@, [state |-> stage, run_id |-> id])]

WithState(ctx, state) == [ctx EXCEPT !.state = state]

\* "rows[0][0] if rows and isinstance(rows[0], (list, tuple)) else None"
FirstValue(rows) == IF rows # <<>> /\ rows[1].tuple THEN rows[1].vals[1] ELSE NullVal

\* rows[0][0] raises IndexError on an empty row
FirstValueRaises(rows) == rows # <<>> /\ rows[1].tuple /\ rows[1].vals = <<>>

rpc_payroll(ctx, aliased, db) ==
    LET period_yyyy_mm == DictGet(ctx.slots, "period", None)
        scope_val == DictGet(ctx.slots, "scope", None)
    IN
    IF period_yyyy_mm = None \/ scope_val = None
    THEN RpcReturn("set", WithState(ctx, S_PAYROLL), "stage", [kind |-> "payroll_missing_slots"], S_PAYROLL, <<>>, <<>>)
    ELSE IF db[1].kind = "raise" THEN RpcRaised(InPlace(aliased), ctx, "stage", <<"rpc_payroll_run">>)
    ELSE
    LET rows == app_to_rows(db[1].result)
        run_id == IF rows # <<>> /\ rows[1].tuple /\ Len(rows[1].vals) >= 1 THEN rows[1].vals[1]
                  ELSE IF rows # <<>> /\ ~rows[1].tuple /\ rows[1].vals[1].t = "str" THEN rows[1].vals[1]
                  ELSE NullVal
    IN
    IF run_id.t = "null" \/ (run_id.t = "str" /\ run_id.v = "")
    THEN RpcReturn("set", WithState(ctx, S_PAYROLL), "stage", [kind |-> "payroll_no_run_id"], S_PAYROLL,
                   <<"rpc_payroll_run">>, <<"rpc_payroll_run">>)
    ELSE
    LET ctx1 == WithRun(ctx, "payroll_run_id", S_PAYROLL, StrOf(run_id)) IN
    IF db[2].kind = "raise" THEN RpcRaised(InPlace(aliased), ctx1, "stage", <<"rpc_payroll_run", "fetch_run">>)
    ELSE
    LET summary == SummaryOf(db[2].result)
        ctx2 == WithState(ctx1, S_TAX)
    IN RpcReturn("set", ctx2, "stage", [kind |-> "payroll_done", run_id |-> StrOf(run_id), summary |-> summary], S_TAX,
                 <<"rpc_payroll_run", "fetch_run">>, <<"rpc_payroll_run", "fetch_run">>)

rpc_tax(ctx, aliased, db) ==
    LET period_yyyy_mm == DictGet(ctx.slots, "period", None)
        scope_val == DictGet(ctx.slots, "scope", None)
        payroll_run_id == DictGet(ctx.refs, "payroll_run_id", None)
    IN
    IF period_yyyy_mm = None \/ scope_val = None
    THEN RpcReturn("set", WithState(ctx, S_PAYROLL), "stage", [kind |-> "tax_missing_slots"], S_PAYROLL, <<>>, <<>>)
    ELSE IF payroll_run_id = None \/ payroll_run_id = ""
    THEN RpcReturn("set", WithState(ctx, S_PAYROLL), "stage", [kind |-> "tax_needs_payroll"], S_PAYROLL, <<>>, <<>>)
    ELSE IF db[1].kind = "raise" THEN RpcRaised(InPlace(aliased), ctx, "stage", <<"rpc_tax_run">>)
    ELSE
    LET rows == app_to_rows(db[1].result) IN
    IF FirstValueRaises(rows) THEN RpcRaised(InPlace(aliased), ctx, "stage", <<"rpc_tax_run">>)
    ELSE
    LET run_id == FirstValue(rows)
        ctx1 == WithRun(ctx, "tax_run_id", S_TAX, StrOf(run_id))
    IN
    IF db[2].kind = "raise" THEN RpcRaised(InPlace(aliased), ctx1, "stage", <<"rpc_tax_run", "fetch_run">>)
    ELSE
    LET summary == SummaryOf(db[2].result)
        ctx2 == WithState(ctx1, S_PAYMENT)
    IN
    \* f"{rate_pct:.2f}" after rpc_set_ctx: raises when float(rate) failed
    IF summary # EmptyDict /\ ~FloatOk(DictGet(summary, "avg_deduction_rate", "int"))
    THEN RpcRaised("set", ctx2, "stage", <<"rpc_tax_run", "fetch_run">>)
    ELSE RpcReturn("set", ctx2, "stage", [kind |-> "tax_done", run_id |-> StrOf(run_id), summary |-> summary], S_PAYMENT,
                   <<"rpc_tax_run", "fetch_run">>, <<"rpc_tax_run", "fetch_run">>)

rpc_payment(ctx, aliased, db, confirm) ==
    LET period_yyyy_mm == DictGet(ctx.slots, "period", None)
        scope_val == DictGet(ctx.slots, "scope", None)
        tax_run_id == DictGet(ctx.refs, "tax_run_id", None)
        pay_date == IF period_yyyy_mm = None THEN None
                    ELSE resolve_md(DictGet(ctx.slots, "pay_date_raw", None), period_yyyy_mm)
    IN
    IF tax_run_id = None \/ tax_run_id = ""
    THEN RpcReturn("set", WithState(ctx, S_TAX), "stage", [kind |-> "payment_needs_tax"], S_TAX, <<>>, <<>>)
    ELSE IF period_yyyy_mm = None \/ scope_val = None
    THEN RpcReturn("set", WithState(ctx, S_PAYROLL), "stage", [kind |-> "payment_missing_slots"], S_PAYROLL, <<>>, <<>>)
    ELSE IF pay_date = None
    THEN RpcReturn("set", WithState(ctx, S_PAYMENT), "stage", [kind |-> "payment_missing_pay_date"], S_PAYMENT, <<>>, <<>>)
    ELSE IF confirm = None
    THEN RpcReturn("set", WithState(ctx, S_PAYMENT), "stage",
                   [kind |-> "payment_confirm_prompt", period |-> period_yyyy_mm, scope |-> scope_val, pay_date |-> pay_date],
                   S_PAYMENT, <<>>, <<>>)
    ELSE IF confirm = "False"
    THEN RpcReturn("set", WithState(ctx, S_PAYMENT), "stage", [kind |-> "payment_cancelled"], S_PAYMENT, <<>>, <<>>)
    ELSE IF db[1].kind = "raise" THEN RpcRaised(InPlace(aliased), ctx, "stage", <<"rpc_payment_run">>)
    ELSE
    LET rows == app_to_rows(db[1].result) IN
    IF FirstValueRaises(rows) THEN RpcRaised(InPlace(aliased), ctx, "stage", <<"rpc_payment_run">>)
    ELSE
    LET run_id == FirstValue(rows)
        ctx1 == WithRun(ctx, "payment_run_id", S_PAYMENT, StrOf(run_id))
    IN
    IF db[2].kind = "raise" THEN RpcRaised(InPlace(aliased), ctx1, "stage", <<"rpc_payment_run", "fetch_run">>)
    ELSE
    LET summary == SummaryOf(db[2].result)
        ctx2 == WithState(ctx1, S_JOURNAL)
    IN RpcReturn("set", ctx2, "stage", [kind |-> "payment_done", run_id |-> StrOf(run_id), summary |-> summary], S_JOURNAL,
                 <<"rpc_payment_run", "fetch_run">>, <<"rpc_payment_run", "fetch_run">>)

rpc_journal(ctx, aliased, db, confirm) ==
    LET period_yyyy_mm == DictGet(ctx.slots, "period", None)
        scope_val == DictGet(ctx.slots, "scope", None)
        payment_run_id == DictGet(ctx.refs, "payment_run_id", None)
        journal_date == IF period_yyyy_mm = None THEN None
                        ELSE resolve_md(DictGet(ctx.slots, "journal_date_raw", None), period_yyyy_mm)
    IN
    IF payment_run_id = None \/ payment_run_id = ""
    THEN RpcReturn("set", WithState(ctx, S_PAYMENT), "stage", [kind |-> "journal_needs_payment"], S_PAYMENT, <<>>, <<>>)
    ELSE IF period_yyyy_mm = None \/ scope_val = None
    THEN RpcReturn("set", WithState(ctx, S_PAYROLL), "stage", [kind |-> "journal_missing_slots"], S_PAYROLL, <<>>, <<>>)
    ELSE IF journal_date = None
    THEN RpcReturn("set", WithState(ctx, S_JOURNAL), "stage", [kind |-> "journal_missing_journal_date"], S_JOURNAL, <<>>, <<>>)
    ELSE IF confirm = None
    THEN RpcReturn("set", WithState(ctx, S_JOURNAL), "stage",
                   [kind |-> "journal_confirm_prompt", period |-> period_yyyy_mm, scope |-> scope_val,
                    journal_date |-> journal_date],
                   S_JOURNAL, <<>>, <<>>)
    ELSE IF confirm = "False"
    THEN RpcReturn("set", WithState(ctx, S_JOURNAL), "stage", [kind |-> "journal_cancelled"], S_JOURNAL, <<>>, <<>>)
    ELSE IF db[1].kind = "raise" THEN RpcRaised(InPlace(aliased), ctx, "stage", <<"rpc_journal_post">>)
    ELSE
    LET rows == app_to_rows(db[1].result) IN
    IF FirstValueRaises(rows) THEN RpcRaised(InPlace(aliased), ctx, "stage", <<"rpc_journal_post">>)
    ELSE
    LET run_id == FirstValue(rows)
        ctx1 == WithRun(ctx, "journal_run_id", S_JOURNAL, StrOf(run_id))
    IN
    IF db[2].kind = "raise" THEN RpcRaised(InPlace(aliased), ctx1, "stage", <<"rpc_journal_post", "fetch_run">>)
    ELSE IF db[3].kind = "raise"
    THEN RpcRaised(InPlace(aliased), ctx1, "stage", <<"rpc_journal_post", "fetch_run", "fetch_lines">>)
    ELSE
    LET summary == SummaryOf(db[2].result)
        ctx2 == WithState(ctx1, S_DONE)
    IN RpcReturn("set", ctx2, "stage", [kind |-> "journal_done", run_id |-> StrOf(run_id), summary |-> summary], S_DONE,
                 <<"rpc_journal_post", "fetch_run", "fetch_lines">>, <<"rpc_journal_post", "fetch_run", "fetch_lines">>)

rpc_done(ctx, aliased, user_text, db, confirm0) ==
    LET side == is_query_intent(user_text) /\ ~is_execute_intent(user_text) /\ confirm0 = None
                /\ DictGet(ctx, "refs", EmptyDict) # EmptyDict
        q == IF side THEN rpc_answer_query_from_refs(ctx, user_text, db) ELSE NoAnswer
        confirm == IF HasToken(user_text, {"yoyak"}) /\ confirm0 = None THEN "True" ELSE confirm0
    IN
    IF q.raised THEN RpcRaised(InPlace(aliased), ctx, "side_done", q.calls)
    ELSE IF ~q.none THEN RpcReturn("set", ctx, "side_done", q.reply, DictGet(ctx, "state", None), q.calls, q.sqls)
    ELSE IF confirm = None
    THEN RpcReturn("set", WithState(ctx, S_DONE), "stage", [kind |-> "done_prompt"], S_DONE, <<>>, <<>>)
    ELSE IF confirm = "False"
    THEN RpcReturn("clear", ctx, "stage", [kind |-> "done_declined"], None, <<>>, <<>>)
    ELSE RpcReturn("clear", ctx, "stage",
                   [kind |-> "done_summary",
                    run_ids |-> [k \in {"payroll_run_id", "tax_run_id", "payment_run_id", "journal_run_id"} |->
                                    DictGet(DictGet(ctx, "refs", EmptyDict), k, None)]],
                   None, <<>>, <<>>)

\* the slots of the message written into ctx["slots"]
RpcMergeSlots(slots, user_text) ==
    LET period == extract_period(user_text)
        scope == extract_scope(user_text)
        any_date == extract_date_any(user_text)
        s1 == IF period # None THEN DictPut(slots, "period", period) ELSE slots
        s2 == IF scope # None THEN DictPut(s1, "scope", scope) ELSE s1
    IN
    IF any_date = None THEN s2
    ELSE IF HasToken(user_text, RpcJournalWords \cup {"jeongi"}) THEN DictPut(s2, "journal_date_raw", any_date)
    ELSE DictPut(s2, "pay_date_raw", any_date)

FreshRpcCtx == [active_scenario |-> RPC_ACTIVE, state |-> S_PAYROLL, slots |-> EmptyDict, refs |-> EmptyDict, history |-> <<>>]

rpc_run(d, user_text, db) ==
    LET active == DictGet(d, "active_scenario", "") = RPC_ACTIVE
        confirm == extract_confirm(user_text)
        ctx == IF active THEN d ELSE FreshRpcCtx
        has_refs == DictGet(ctx, "refs", EmptyDict) # EmptyDict
        side1 == is_query_intent(user_text) /\ confirm = None /\ has_refs
        q1 == IF side1 THEN rpc_answer_query_from_refs(ctx, user_text, db) ELSE NoAnswer
        side2 == is_query_intent(user_text) /\ ~is_execute_intent(user_text) /\ confirm = None /\ has_refs
        q2 == IF side2 THEN rpc_answer_query_from_refs(ctx, user_text, db) ELSE NoAnswer
        ctx1 == [ctx EXCEPT !.slots = RpcMergeSlots(DictGet(ctx, "slots", EmptyDict), user_text)]
        state == IF DictGet(ctx1, "state", "") = "" THEN S_PAYROLL ELSE ctx1.state
    IN
    IF HasToken(user_text, {"chwiso", "jongnyo", "geuman", "jungdan", "riset", "chogihwa"})
    THEN RpcReturn("clear", d, "exit", [kind |-> "rpc_exit"], None, <<>>, <<>>)
    ELSE IF q1.raised THEN RpcRaised("keep", ctx, "side", q1.calls)
    ELSE IF ~q1.none THEN RpcReturn("set", ctx, "side", q1.reply, DictGet(ctx, "state", None), q1.calls, q1.sqls)
    ELSE IF q2.raised THEN RpcRaised("keep", ctx, "side", q2.calls)
    ELSE IF ~q2.none THEN RpcReturn("set", ctx, "side", q2.reply, DictGet(ctx, "state", None), q2.calls, q2.sqls)
    ELSE IF state = S_PAYROLL THEN rpc_payroll(ctx1, active, db)
    ELSE IF state = S_TAX THEN rpc_tax(ctx1, active, db)
    ELSE IF state = S_PAYMENT THEN rpc_payment(ctx1, active, db, confirm)
    ELSE IF state = S_JOURNAL THEN rpc_journal(ctx1, active, db, confirm)
    ELSE IF state = S_DONE THEN rpc_done(ctx1, active, user_text, db, confirm)
    ELSE RpcReturn("set", WithState(ctx1, S_PAYROLL), "reset", [kind |-> "state_reset"], S_PAYROLL, <<>>, <<>>)

(***************************************************************************)
(* RPC specification: turns of rpc_run of one session over the memory      *)
(* manager of app_hr_sql.py, against every answer of the database.         *)
(***************************************************************************)
RpcMessages == {
    <<"2026y1m", "jeonjigwon", "geubyeo", "cheori">>,
    <<"gongje", "geomjeung", "jinhaeng">>,
    <<"25il", "jigeup">>,
    <<"ye">>,
    <<"anio">>,
    <<"1/31", "jeonpyo">>,
    <<"sinario", "jongnyo">>,
    <<"inwon", "johoe">>,
    <<"geubyeo", "cheori", "gyeolgwa">>,
    <<"yoyak">> }

\* the answers dbs with every answer to the k-th call, where that call is made
AnswersTo(d, user_text, dbs, k) ==
    LET ctx == IF DictGet(d, "active_scenario", "") = RPC_ACTIVE THEN d ELSE FreshRpcCtx IN
    UNION {LET calls == rpc_run(d, user_text, db).calls IN
           IF Len(calls) >= k THEN {[db EXCEPT ![k] = o] : o \in RpcOutcomes(calls[k], ctx)} ELSE {db} : db \in dbs}

RpcAnswers(d, user_text) ==
    AnswersTo(d, user_text, AnswersTo(d, user_text, AnswersTo(d, user_text, {[k \in 1..MaxExec |-> RpcRaise]}, 1), 2), 3)

RpcTurn(session_id, user_text, db) ==
    LET d == MemGet(mem, session_id)
        r == rpc_run(d, user_text, db)
    IN
    /\ Len(DictGet(r.data, "history", <<>>)) <= MaxHistory
    /\ mem' = StoreAfter(mem, session_id, r)
    /\ exited' = IF r.path = "exit" THEN exited \cup {session_id} ELSE exited \ {session_id}
    /\ last' = [sid |-> session_id, msg |-> user_text, sql |-> db, before |-> mem,
                afterExit |-> session_id \in exited, r |-> r]
    /\ UNCHANGED <<pc, loc, walk>>

NextRpc ==
    \E session_id \in Sessions, user_text \in RpcMessages :
        \E db \in RpcAnswers(MemGet(mem, session_id), user_text) : RpcTurn(session_id, user_text, db)

SpecRpc == Init /\ [][NextRpc]_vars

\* the latest call of rpc_run returned an answer of the query side-channel
SideChannelTurn == last.sid # "" /\ ~last.r.raised /\ last.r.path \in {"side", "side_done"}

RpcStageCalls == {"rpc_payroll_run", "rpc_tax_run", "rpc_payment_run", "rpc_journal_post"}

\* C16: a turn of rpc_run answered through the query side-channel leaves the
\* stored context as it was (state, slots, refs, history) and issues no
\* payroll, tax, payment or journal RPC call.
C16_SideChannelReadOnly ==
    SideChannelTurn =>
        /\ mem = last.before
        /\ last.sid \in DOMAIN mem
        /\ \A i \in 1..Len(last.r.calls) : last.r.calls[i] \notin RpcStageCalls
        /\ last.r.out.state = PreState

C16_Witness ==
    /\ SideChannelTurn
    /\ last.msg = <<"inwon", "johoe">>
    /\ last.r.out.reply.kind = "headcount"
    /\ PreState = S_PAYMENT
    /\ Has(PreRefs, "tax_run_id")
    /\ last.r.calls = <<"fetch_run", "fetch_run">>
    /\ mem = last.before

(***************************************************************************)
(* Further properties of the sequential specification.                     *)
(***************************************************************************)
OutcomeFields == {"reply", "state", "suggestions", "artifacts"}

\* C21: every outcome with handled=true that route_and_handle returns holds
\* the four fields reply, state, suggestions and artifacts.
C21_OutcomeHasFourFields ==
    (last.sid # "" /\ ~last.r.raised /\ last.r.out.handled = TRUE) => OutcomeFields \subseteq DOMAIN last.r.out

\* C22: no stored slot map holds the key intent or the key confirm.
C22_NoIntentConfirmStored ==
    \A s \in DOMAIN mem : DOMAIN DictGet(mem[s], "slots", EmptyDict) \cap {"intent", "confirm"} = {}

C22_Witness ==
    /\ last.r.branch = "handled"
    /\ last.r.intent = "PAYROLL"
    /\ last.sid \in DOMAIN mem
    /\ Has(PostSlots, "period")
    /\ ~Has(PreSlots, "period")
    /\ ~Has(PostSlots, "intent")

\* the run id of a stage in refs is the ref of the latest history entry of that stage
LatestOfStage(refs, h, stage) ==
    Has(refs, RunIdKey(stage)) =>
        \E i \in 1..Len(h) :
            /\ h[i].state = stage
            /\ h[i].ref = refs[RunIdKey(stage)]
            /\ \A j \in (i + 1)..Len(h) : h[j].state # stage

\* C27: in every stored context the run ids in refs form a prefix of the
\* stage order (journal implies payment implies tax implies payroll), and
\* each run id in refs is the ref of the latest history entry of its stage.
C27_RefsFollowStageOrder ==
    \A s \in DOMAIN mem :
        LET refs == DictGet(mem[s], "refs", EmptyDict)
            h == DictGet(mem[s], "history", <<>>)
        IN
        /\ Has(refs, "journal_run_id") => Has(refs, "payment_run_id")
        /\ Has(refs, "payment_run_id") => Has(refs, "tax_run_id")
        /\ Has(refs, "tax_run_id") => Has(refs, "payroll_run_id")
        /\ \A stage \in {STATE_PAYROLL_CALC, STATE_TAX_CALC, STATE_PAYMENT_RUN, STATE_JOURNAL_POST} :
              LatestOfStage(refs, h, stage)

C27_Witness ==
    /\ last.sid \in DOMAIN mem
    /\ Completed
    /\ last.r.question.stage = STATE_TAX_CALC
    /\ Has(PreRefs, "payment_run_id")
    /\ PostRefs["tax_run_id"] # PreRefs["tax_run_id"]
    /\ PostHistory[Len(PostHistory)].ref = PostRefs["tax_run_id"]
    /\ \E i \in 1..Len(PreHistory) : PreHistory[i].state = STATE_TAX_CALC

\* C29: within one workflow run each stage's query is issued at most once: a
\* stored history holds at most one entry per stage, and a turn of an active
\* scenario issues the query of a stage only while refs holds no run id of
\* that stage (so a run id, once written, is never replaced).
C29_StageRunsOnce ==
    /\ \A s \in DOMAIN mem :
          LET h == DictGet(mem[s], "history", <<>>) IN
          \A i, j \in 1..Len(h) : h[i].state = h[j].state => i = j
    /\ (last.sid # "" /\ PreActive /\ last.r.calls = 1) =>
          ~Has(last.r.entry.refs, RunIdKey(last.r.question.stage))

\* C30: a turn whose message parses to confirm=false calls sql_engine.run in
\* no stage and does not move the stored state to the next stage.
C30_DeclineNeverRuns ==
    (last.sid # "" /\ _extract_confirm(last.msg) = "False") =>
        /\ last.r.calls = 0
        /\ (PreActive /\ PreState \in StageIds \ {STATE_DONE}) => PostState # SuccessorOf(PreState)

(***************************************************************************)
(* Orchestrator specification: whole calls of ScenarioOrchestrator.run     *)
(* with the payroll scenario as its only scenario.  calls counts the calls *)
(* of sql_engine.run of the turn, the scenario's and the fallback's.       *)
(***************************************************************************)
\* the outcome of the fallback after the scenario returned r unhandled
Fallback(r, user_text, sql) ==
    [branch |-> "fallback", store |-> r.store, data |-> r.data,
     out |-> IF sql.kind = "raise" THEN [raised |-> TRUE]
             ELSE [handled |-> TRUE, reply |-> [kind |-> "request_run"], state |-> None,
                   artifacts |-> EngineRun(sql), suggestions |-> <<>>],
     raised |-> (sql.kind = "raise"), calls |-> r.calls + 1, question |-> [stage |-> "raw", text |-> user_text],
     dispatched |-> r.dispatched, confirm |-> r.confirm, intent |-> r.intent, fresh |-> r.fresh, entry |-> r.entry]

\* variant: the fallback query is issued after a handled turn too
RunFallsBackAlways(r, user_text, sql) ==
    IF r.raised THEN r ELSE Fallback(r, user_text, sql)

\* what run returns once its scenario returned r (or raised)
RunOutcome(r, user_text, sql) ==
    IF r.raised THEN r
    ELSE IF r.out.handled THEN r
    ELSE Fallback(r, user_text, sql)

run(d, user_text, sql, uid) == RunOutcome(route_and_handle(d, user_text, sql, uid), user_text, sql)

OrchTurn(session_id, user_text, sql) ==
    LET d == MemGet(mem, session_id)
        r == run(d, user_text, sql, FreshUid(d, 0))
    IN
    /\ (r.calls >= 1 /\ r.branch # "fallback") => Len(r.entry.history) < MaxHistory
    /\ mem' = StoreAfter(mem, session_id, r)
    /\ exited' = IF r.branch = "exit" THEN exited \cup {session_id} ELSE exited \ {session_id}
    /\ last' = [sid |-> session_id, msg |-> user_text, sql |-> IF r.calls >= 1 THEN sql ELSE NoCall,
                before |-> mem, afterExit |-> session_id \in exited, r |-> r]
    /\ UNCHANGED <<pc, loc, walk>>

\* the answers of the engine to consider for a call: one is enough when it is not asked
OrchAnswers(d, user_text) ==
    IF run(d, user_text, SqlRaise, FreshUid(d, 0)).calls >= 1 THEN SqlOutcomes ELSE {SqlRaise}

OrchMessages == {
    <<"2026y1m", "jeonjigwon", "geubyeo", "cheori">>,
    <<"gongje", "geomjeung", "jinhaeng">>,
    <<"25il", "jigeup">>,
    <<"ye">>,
    <<"1/31", "jeonpyo">>,
    <<"chwiso">>,
    <<"hello">> }

NextOrch ==
    \E session_id \in Sessions, user_text \in OrchMessages :
        \E sql \in OrchAnswers(MemGet(mem, session_id), user_text) : OrchTurn(session_id, user_text, sql)

SpecOrch == Init /\ [][NextOrch]_vars

\* the scenario does not handle the latest message
NotForScenario == last.sid # "" /\ ~PreActive /\ ~HasToken(last.msg, TriggerWords)

\* C28: one call of ScenarioOrchestrator.run calls sql_engine.run at most
\* once; when no scenario handles the message it calls it exactly once with
\* the raw user text, leaves the memory store unchanged and, when the engine
\* answers, returns an outcome whose state is None.
C28_EngineCalledAtMostOnce ==
    last.sid # "" =>
        /\ last.r.calls \in {0, 1}
        /\ (last.r.branch = "fallback") = NotForScenario
        /\ NotForScenario =>
              /\ last.r.calls = 1
              /\ last.r.question = [stage |-> "raw", text |-> last.msg]
              /\ mem = last.before
              /\ ~last.r.raised => (last.r.out.handled /\ last.r.out.state = None)

C28_Witness ==
    /\ NotForScenario
    /\ last.msg = <<"hello">>
    /\ last.sid \in DOMAIN mem
    /\ last.r.calls = 1
    /\ ~last.r.raised
    /\ last.r.out.artifacts = EngineRun(GoodRow)

(***************************************************************************)
(* Further properties of the RPC specification.                            *)
(***************************************************************************)
\* C23: a turn of rpc_run is answered by the query side-channel only when the
\* message matches the query-intent keywords, matches no execute-intent
\* keyword, carries no confirmation and the context holds refs.
C23_SideChannelOnlyForPureQuery ==
    SideChannelTurn =>
        /\ is_query_intent(last.msg)
        /\ ~is_execute_intent(last.msg)
        /\ extract_confirm(last.msg) = None
        /\ PreRefs # EmptyDict

(***************************************************************************)
(* Date specification: turns of one session whose messages carry dates in  *)
(* payment context and in journal context.                                 *)
(***************************************************************************)
DateMessages == {
    <<"2026y1m", "jeonjigwon", "geubyeo", "cheori">>,
    <<"gongje", "geomjeung", "jinhaeng">>,
    <<"25il", "jigeup">>,
    <<"2026-01-25", "jigeup">>,
    <<"ye">>,
    <<"2026-01-31", "jeonpyo">>,
    <<"1/31", "jeonpyo">>,
    <<"25il", "jeonpyo">> }

NextDates ==
    \E session_id \in Sessions, user_text \in DateMessages :
        \E sql \in Answers(MemGet(mem, session_id), user_text, SqlOutcomes) : Turn(session_id, user_text, sql)

SpecDates == Init /\ [][NextDates]_vars

\* the message carries a date: a full date, a day of the month or month/day
CarriesDate(text) == HasToken(text, DOMAIN FullDateOf \cup DOMAIN DayOf \cup DOMAIN MonthDayOf)

\* the latest message carries a date with journal words and no payment word
JournalDateTurn ==
    /\ last.sid # ""
    /\ CarriesDate(last.msg)
    /\ HasToken(last.msg, {"jeonpyo", "bungae"})
    /\ ~HasToken(last.msg, PaymentWords)

\* C24: a message that carries a date together with journal context words and
\* no payment word leaves the stored pay_date slot as it was.
C24_JournalDateKeepsPayDate ==
    (JournalDateTurn /\ PreActive) => DictGet(PostSlots, "pay_date", None) = DictGet(PreSlots, "pay_date", None)

RpcRunIdKeys == {"payroll_run_id", "tax_run_id", "payment_run_id", "journal_run_id"}

\* the latest call of rpc_run issued a stage RPC whose result holds no run id
NoRunIdTurn ==
    /\ last.sid # ""
    /\ last.r.calls # <<>>
    /\ last.r.calls[1] \in RpcStageCalls
    /\ last.sql[1].kind = "result"
    /\ FirstValue(app_to_rows(last.sql[1].result)) = NullVal

\* C25: a stage of rpc_run writes its run id, appends to history and advances
\* only when a run id was parsed from the RPC result: when none was parsed the
\* turn returns the "could not parse run_id" reply with the stored state and
\* refs as they were, and no stored run id is the placeholder "None".
C25_RunIdParsedOrNothing ==
    /\ \A s \in DOMAIN mem : \A k \in RpcRunIdKeys \cap DOMAIN DictGet(mem[s], "refs", EmptyDict) :
          mem[s].refs[k] # "None"
    /\ NoRunIdTurn =>
          /\ ~last.r.raised
          /\ last.r.out.reply.kind \in {"payroll_no_run_id", "tax_no_run_id", "payment_no_run_id", "journal_no_run_id"}
          /\ PostRefs = PreRefs
          /\ PostHistory = PreHistory
          /\ PostState = (IF DictGet(Pre, "active_scenario", "") = RPC_ACTIVE THEN PreState ELSE S_PAYROLL)

\* the latest call of rpc_run ended by an exception raised by exec_sql
ExecSqlRaised ==
    /\ last.sid # ""
    /\ last.r.raised
    /\ last.r.calls # <<>>
    /\ last.sql[Len(last.r.calls)].kind = "raise"

\* C26: when exec_sql raises during a turn of rpc_run, the store is what it
\* was before the turn.
C26_RaisingTurnKeepsStore == ExecSqlRaised => mem = last.before

====
